---- MODULE Spec2Model ----
(***************************************************************************)
(* Model of the Chatten Q-score analyzer (src/tools/market_tools.py), of   *)
(* the swap pricing formula exercised by src/tests/test_contract.py, of    *)
(* the chain bridge (src/tools/neo_bridge.py), of the trader's price and   *)
(* buy tools (src/agents/chatten_trader.py) and of run_agent (src/main.py).*)
(*                                                                         *)
(* Python floats are modelled as exact fixed-point numbers:                *)
(*   - every PerformanceMetrics field is held in thousandths (Scale);      *)
(*   - every 0-1 component fraction is held in millionths (FracScale);     *)
(*   - q_score and the four 0-25 component fields are held in millionths   *)
(*     of a point (FracScale), so 50 points is 50 * FracScale.             *)
(* Arithmetic is therefore exact: an equality of the model is an equality  *)
(* of the real-number values, which IEEE doubles follow up to rounding.    *)
(***************************************************************************)
EXTENDS Integers, Sequences, FiniteSets, TLC

VARIABLES
    metrics_cache,  \* QScoreAnalyzerTool._metrics_cache: the dict model id -> snapshot
    call,           \* the call being made: function name and arguments
    ret,            \* what the call returned (NoRet while it has not returned)
    writes,         \* history: the cache writes made so far, oldest first
    shared,         \* the model ids whose cached snapshot object is the
                    \* metrics object of a result held in ret
    task,           \* the local variables of a scoring call run statement by
                    \* statement (NoTask when no such call is running)
    bridge,         \* the fields of the NeoBridgeTool object
    tools,          \* the trader's PriceCheckTool and BuyComputeTool objects
                    \* and the module flag NEO3_AVAILABLE they read
    chain,          \* history: the RPC calls made on the chain facade, oldest
                    \* first, each with what the node answered
    lifecycle       \* run_agent: the statement it is at and the agent hooks
                    \* called so far

vars == <<metrics_cache, call, ret, writes, shared, task,
          bridge, tools, chain, lifecycle>>

\* Python's None, where a record is expected
None == [none |-> TRUE]
NoRet == [fn |-> "none"]
NoCall == [fn |-> "none"]
NoTask == [pc |-> "none"]

------------------------------------------------------------------------------
(* Fixed-point units *)

Scale == 1000
FracScale == 1000000

\* n tenths as a 0-1 fraction: Tenths(8) is the float literal 0.8
Tenths(n) == n * (FracScale \div 10)

Min(a, b) == IF a < b THEN a ELSE b
Max(a, b) == IF a > b THEN a ELSE b

------------------------------------------------------------------------------
(* Class constants of QScoreAnalyzerTool *)

MIN_SCORE_FOR_MINT == 50
EXCELLENT_THRESHOLD == 80
GOOD_THRESHOLD == 60

\* a latency weight of 0.30
LATENCY_WEIGHT_raised == 25 + 5

\* the weights 0.25, in hundredths
LATENCY_WEIGHT == 25
THROUGHPUT_WEIGHT == 25
QUALITY_WEIGHT == 25
RELIABILITY_WEIGHT == 25

\* ModelCategory
Categories == {"llm", "image_generation", "embedding", "audio", "multimodal"}

------------------------------------------------------------------------------
(* PerformanceMetrics: the fields the scorer reads, in thousandths.  The   *)
(* other fields (p95/p99 latency, requests per minute, cost, sample size,  *)
(* timestamp) are never read by any code path and are left out.            *)

PerformanceMetrics(lat, tps, acc, bench, up, err) ==
    [avg_latency_ms |-> lat, tokens_per_second |-> tps,
     accuracy_score |-> acc, benchmark_score |-> bench,
     uptime_percentage |-> up, error_rate |-> err]

\* PerformanceMetrics(): every field at its default 0.0
\* a default snapshot of full uptime instead of uptime 0.0
DefaultMetricsFullUptime == PerformanceMetrics(0, 0, 0, 0, 100 * Scale, 0)

DefaultMetrics == PerformanceMetrics(0, 0, 0, 0, 0, 0)

------------------------------------------------------------------------------
(* Score calculation helpers *)

\* the 50 ms comparison made inclusive
_calculate_latency_score_inclusive(metrics) ==
    LET latency == metrics.avg_latency_ms IN
    IF latency <= 0 THEN 0
    ELSE IF latency <= 50 * Scale THEN Tenths(10)
    ELSE IF latency < 100 * Scale THEN Tenths(8)
    ELSE IF latency < 200 * Scale THEN Tenths(6)
    ELSE IF latency < 500 * Scale THEN Tenths(4)
    ELSE IF latency < 1000 * Scale THEN Tenths(2)
    ELSE 0

_calculate_latency_score(metrics) ==
    LET latency == metrics.avg_latency_ms IN
    IF latency <= 0 THEN 0
    ELSE IF latency < 50 * Scale THEN Tenths(10)
    ELSE IF latency < 100 * Scale THEN Tenths(8)
    ELSE IF latency < 200 * Scale THEN Tenths(6)
    ELSE IF latency < 500 * Scale THEN Tenths(4)
    ELSE IF latency < 1000 * Scale THEN Tenths(2)
    ELSE 0

\* the 500 tokens/s comparison made strict
_calculate_throughput_score_strict(metrics) ==
    LET tps == metrics.tokens_per_second IN
    IF tps >= 1000 * Scale THEN Tenths(10)
    ELSE IF tps > 500 * Scale THEN Tenths(8)
    ELSE IF tps >= 200 * Scale THEN Tenths(6)
    ELSE IF tps >= 100 * Scale THEN Tenths(4)
    ELSE IF tps >= 50 * Scale THEN Tenths(2)
    ELSE 0

\* a snapshot of non-positive latency treated as invalid for throughput too
_calculate_throughput_score_valid_latency(metrics) ==
    LET tps == metrics.tokens_per_second IN
    IF metrics.avg_latency_ms <= 0 THEN 0
    ELSE IF tps >= 1000 * Scale THEN Tenths(10)
    ELSE IF tps >= 500 * Scale THEN Tenths(8)
    ELSE IF tps >= 200 * Scale THEN Tenths(6)
    ELSE IF tps >= 100 * Scale THEN Tenths(4)
    ELSE IF tps >= 50 * Scale THEN Tenths(2)
    ELSE 0

_calculate_throughput_score(metrics) ==
    LET tps == metrics.tokens_per_second IN
    IF tps >= 1000 * Scale THEN Tenths(10)
    ELSE IF tps >= 500 * Scale THEN Tenths(8)
    ELSE IF tps >= 200 * Scale THEN Tenths(6)
    ELSE IF tps >= 100 * Scale THEN Tenths(4)
    ELSE IF tps >= 50 * Scale THEN Tenths(2)
    ELSE 0

\* the benchmark clamped from below only
_calculate_quality_score_unclamped(metrics) ==
    LET accuracy == Min(Max(metrics.accuracy_score, 0), 1 * Scale)
        benchmark == Max(metrics.benchmark_score, 0)
    IN accuracy * 600 + benchmark * 4

\* accuracy is clamped to [0, 1] and benchmark / 100 to [0, 1]; with both in
\* thousandths, accuracy * 0.6 is 600 millionths per unit and
\* (benchmark / 100) * 0.4 is 4 millionths per unit.
_calculate_quality_score(metrics) ==
    LET accuracy == Min(Max(metrics.accuracy_score, 0), 1 * Scale)
        benchmark == Min(Max(metrics.benchmark_score, 0), 100 * Scale)
    IN accuracy * 600 + benchmark * 4

\* the last error-rate comparison made inclusive (error_rate <= 0.10)
_calculate_reliability_score_inclusive(metrics) ==
    LET uptime == metrics.uptime_percentage
        uptime_score ==
            IF uptime >= 99900 THEN Tenths(10)
            ELSE IF uptime >= 99 * Scale THEN Tenths(9)
            ELSE IF uptime >= 95 * Scale THEN Tenths(5)
            ELSE IF uptime >= 90 * Scale THEN Tenths(2)
            ELSE 0
        error_rate == metrics.error_rate
        error_score ==
            IF error_rate <= 0 THEN Tenths(10)
            ELSE IF error_rate <= 10 THEN Tenths(9)
            ELSE IF error_rate <= 50 THEN Tenths(5)
            ELSE IF error_rate <= 100 THEN Tenths(2)
            ELSE 0
    IN (uptime_score * 5 + error_score * 5) \div 10

_calculate_reliability_score(metrics) ==
    LET uptime == metrics.uptime_percentage
        uptime_score ==
            IF uptime >= 99900 THEN Tenths(10)          \* 99.9
            ELSE IF uptime >= 99 * Scale THEN Tenths(9)
            ELSE IF uptime >= 95 * Scale THEN Tenths(5)
            ELSE IF uptime >= 90 * Scale THEN Tenths(2)
            ELSE 0
        error_rate == metrics.error_rate
        error_score ==
            IF error_rate <= 0 THEN Tenths(10)
            ELSE IF error_rate <= 10 THEN Tenths(9)     \* 0.01
            ELSE IF error_rate <= 50 THEN Tenths(5)     \* 0.05
            ELSE IF error_rate < 100 THEN Tenths(2)     \* 0.10
            ELSE 0
    IN (uptime_score * 5 + error_score * 5) \div 10

LatencyAdvice == "Consider optimizing inference latency"
ThroughputAdvice == "Throughput could be improved with batching"
QualityAdvice == "Model accuracy needs improvement"
ReliabilityAdvice == "Improve uptime and reduce error rates"
ExcellentSummary == "Excellent performance - eligible for premium rates"
GoodSummary == "Good performance - eligible for token minting"
BelowSummary == "Below threshold - improvements needed before minting"

\* the quality comparison made inclusive (quality <= 0.5)
_generate_recommendations_inclusive(q_score, latency, throughput, quality, reliability) ==
    (IF latency < Tenths(5) THEN <<LatencyAdvice>> ELSE <<>>)
    \o (IF throughput < Tenths(5) THEN <<ThroughputAdvice>> ELSE <<>>)
    \o (IF quality <= Tenths(5) THEN <<QualityAdvice>> ELSE <<>>)
    \o (IF reliability < Tenths(5) THEN <<ReliabilityAdvice>> ELSE <<>>)
    \o (IF q_score >= EXCELLENT_THRESHOLD * FracScale THEN <<ExcellentSummary>>
        ELSE IF q_score >= MIN_SCORE_FOR_MINT * FracScale THEN <<GoodSummary>>
        ELSE <<BelowSummary>>)

\* an advisory for every component below 1.0 instead of below 0.5
_generate_recommendations_below_full(q_score, latency, throughput, quality, reliability) ==
    (IF latency < Tenths(10) THEN <<LatencyAdvice>> ELSE <<>>)
    \o (IF throughput < Tenths(10) THEN <<ThroughputAdvice>> ELSE <<>>)
    \o (IF quality < Tenths(10) THEN <<QualityAdvice>> ELSE <<>>)
    \o (IF reliability < Tenths(10) THEN <<ReliabilityAdvice>> ELSE <<>>)
    \o (IF q_score >= EXCELLENT_THRESHOLD * FracScale THEN <<ExcellentSummary>>
        ELSE IF q_score >= MIN_SCORE_FOR_MINT * FracScale THEN <<GoodSummary>>
        ELSE <<BelowSummary>>)

_generate_recommendations(q_score, latency, throughput, quality, reliability) ==
    (IF latency < Tenths(5) THEN <<LatencyAdvice>> ELSE <<>>)
    \o (IF throughput < Tenths(5) THEN <<ThroughputAdvice>> ELSE <<>>)
    \o (IF quality < Tenths(5) THEN <<QualityAdvice>> ELSE <<>>)
    \o (IF reliability < Tenths(5) THEN <<ReliabilityAdvice>> ELSE <<>>)
    \o (IF q_score >= EXCELLENT_THRESHOLD * FracScale THEN <<ExcellentSummary>>
        ELSE IF q_score >= MIN_SCORE_FOR_MINT * FracScale THEN <<GoodSummary>>
        ELSE <<BelowSummary>>)

------------------------------------------------------------------------------
(* Metrics fetch and Q-score calculation *)

\* the cache is a function whose domain is the set of keys of the dict
EmptyCache == [m \in {} |-> DefaultMetrics]

\* the cache never consulted
_fetch_metrics_uncached(cache, model_id) == DefaultMetrics

\* the cached snapshot when the id is a key of the cache, else a default one
\* (the oracle fetch is not implemented)
_fetch_metrics(cache, model_id) ==
    IF model_id \in DOMAIN cache
    THEN cache[model_id]
    ELSE DefaultMetrics

\* a strict comparison in place of >=
MintEligibleStrict(q_score) == q_score > MIN_SCORE_FOR_MINT * FracScale

\* mint_eligible = q_score >= self.MIN_SCORE_FOR_MINT
MintEligible(q_score) == q_score >= MIN_SCORE_FOR_MINT * FracScale

\* the reliability term left out of the weighted sum
WeightedCompositeNoReliability(latency_score, throughput_score, quality_score, reliability_score) ==
    latency_score * LATENCY_WEIGHT
    + throughput_score * THROUGHPUT_WEIGHT
    + quality_score * QUALITY_WEIGHT

\* The weighted sum of the four fractions (millionths) with the weights in
\* hundredths is the composite in millionths of a point: the factor 100 of
\* the code cancels the weights' scale.
WeightedComposite(latency_score, throughput_score, quality_score, reliability_score) ==
    latency_score * LATENCY_WEIGHT
    + throughput_score * THROUGHPUT_WEIGHT
    + quality_score * QUALITY_WEIGHT
    + reliability_score * RELIABILITY_WEIGHT

\* metrics = None stands for the omitted argument
\* the composite of every category but "llm" computed without reliability
calculate_q_score_by_category(cache, model_id, given, category) ==
    LET metrics == IF given = None THEN _fetch_metrics(cache, model_id) ELSE given
        latency_score == _calculate_latency_score(metrics)
        throughput_score == _calculate_throughput_score(metrics)
        quality_score == _calculate_quality_score(metrics)
        reliability_score == _calculate_reliability_score(metrics)
        q_score == IF category = "llm"
                   THEN WeightedComposite(latency_score, throughput_score,
                                          quality_score, reliability_score)
                   ELSE WeightedCompositeNoReliability(
                            latency_score, throughput_score,
                            quality_score, reliability_score)
        mint_eligible == MintEligible(q_score)
        recommendations == _generate_recommendations(
            q_score, latency_score, throughput_score,
            quality_score, reliability_score)
    IN [model_id |-> model_id,
        q_score |-> q_score,
        category |-> category,
        metrics |-> metrics,
        latency_score |-> latency_score * 25,
        throughput_score |-> throughput_score * 25,
        quality_score |-> quality_score * 25,
        reliability_score |-> reliability_score * 25,
        recommendations |-> recommendations,
        mint_eligible |-> mint_eligible]

calculate_q_score(cache, model_id, given, category) ==
    LET metrics == IF given = None THEN _fetch_metrics(cache, model_id) ELSE given
        latency_score == _calculate_latency_score(metrics)
        throughput_score == _calculate_throughput_score(metrics)
        quality_score == _calculate_quality_score(metrics)
        reliability_score == _calculate_reliability_score(metrics)
        q_score == WeightedComposite(latency_score, throughput_score,
                                     quality_score, reliability_score)
        mint_eligible == MintEligible(q_score)
        recommendations == _generate_recommendations(
            q_score, latency_score, throughput_score,
            quality_score, reliability_score)
    IN [model_id |-> model_id,
        q_score |-> q_score,
        category |-> category,
        metrics |-> metrics,
        latency_score |-> latency_score * 25,
        throughput_score |-> throughput_score * 25,
        quality_score |-> quality_score * 25,
        reliability_score |-> reliability_score * 25,
        recommendations |-> recommendations,
        mint_eligible |-> mint_eligible]

\* sorted(results, key=lambda x: x.q_score, reverse=True) keeps results of
\* equal q_score in their original order, also under reverse=True: each
\* result goes behind every result already placed whose q_score is >= its own.
RECURSIVE SortedByQScoreDesc(_)
SortedByQScoreDesc(results) ==
    IF results = <<>> THEN <<>>
    ELSE LET n == Len(results)
             front == SortedByQScoreDesc(SubSeq(results, 1, n - 1))
             x == results[n]
             keep == {i \in 1..Len(front) : front[i].q_score >= x.q_score}
             k == Cardinality(keep)
         IN SubSeq(front, 1, k) \o <<x>> \o SubSeq(front, k + 1, Len(front))

\* an unstable sort: a result goes in front of the results of equal q_score
RECURSIVE SortedByQScoreDescUnstable(_)
SortedByQScoreDescUnstable(results) ==
    IF results = <<>> THEN <<>>
    ELSE LET n == Len(results)
             front == SortedByQScoreDescUnstable(SubSeq(results, 1, n - 1))
             x == results[n]
             keep == {i \in 1..Len(front) : front[i].q_score > x.q_score}
             k == Cardinality(keep)
         IN SubSeq(front, 1, k) \o <<x>> \o SubSeq(front, k + 1, Len(front))

\* every id is scored with metrics omitted and the default category
compare_models_unstable(cache, model_ids) ==
    SortedByQScoreDescUnstable(
        [i \in 1..Len(model_ids) |-> calculate_q_score(cache, model_ids[i], None, "llm")])

compare_models(cache, model_ids) ==
    SortedByQScoreDesc(
        [i \in 1..Len(model_ids) |-> calculate_q_score(cache, model_ids[i], None, "llm")])

------------------------------------------------------------------------------
(* Market analysis and the tools' run entry points *)

\* MarketAnalysis(): every field at its default
MarketAnalysis ==
    [total_models |-> 0,
     avg_q_score |-> 0,
     top_performers |-> <<>>,
     market_liquidity |-> 0,
     price_trend |-> "stable"]

\* an analysis without a trend
get_market_analysis_no_trend(cache) ==
    [MarketAnalysis EXCEPT !.price_trend = ""]

\* the method is a stub: it returns MarketAnalysis() whatever the cache holds
get_market_analysis(cache) == MarketAnalysis

\* kwargs.get(key, default)
Get(kwargs, key, default) ==
    IF key \in DOMAIN kwargs THEN kwargs[key] ELSE default

\* an unknown action treated as the default action "calculate"
run_unknown_as_default(cache, kwargs) ==
    LET action == Get(kwargs, "action", "calculate") IN
    IF action = "compare"
    THEN LET results == compare_models(cache, Get(kwargs, "model_ids", <<>>))
         IN [rankings |-> [i \in 1..Len(results) |->
                             [model_id |-> results[i].model_id,
                              q_score |-> results[i].q_score]]]
    ELSE IF action = "market"
    THEN LET analysis == get_market_analysis(cache)
         IN [total_models |-> analysis.total_models,
             avg_q_score |-> analysis.avg_q_score,
             trend |-> analysis.price_trend]
    ELSE LET result == calculate_q_score(cache, Get(kwargs, "model_id", ""),
                                         None, "llm")
         IN [model_id |-> result.model_id,
             q_score |-> result.q_score,
             mint_eligible |-> result.mint_eligible,
             recommendations |-> result.recommendations]

\* QScoreAnalyzerTool.run(**kwargs)
run(cache, kwargs) ==
    LET action == Get(kwargs, "action", "calculate") IN
    IF action = "calculate"
    THEN LET result == calculate_q_score(cache, Get(kwargs, "model_id", ""),
                                         None, "llm")
         IN [model_id |-> result.model_id,
             q_score |-> result.q_score,
             mint_eligible |-> result.mint_eligible,
             recommendations |-> result.recommendations]
    ELSE IF action = "compare"
    THEN LET results == compare_models(cache, Get(kwargs, "model_ids", <<>>))
         IN [rankings |-> [i \in 1..Len(results) |->
                             [model_id |-> results[i].model_id,
                              q_score |-> results[i].q_score]]]
    ELSE IF action = "market"
    THEN LET analysis == get_market_analysis(cache)
         IN [total_models |-> analysis.total_models,
             avg_q_score |-> analysis.avg_q_score,
             trend |-> analysis.price_trend]
    ELSE [error |-> "Unknown action"]

------------------------------------------------------------------------------
(* The trader's tools: PriceCheckTool and BuyComputeTool                   *)
(*                                                                         *)
(* A method maps the tools (self), the log of RPC calls made so far and    *)
(* what the outside answers during the call to an outcome: the tools and   *)
(* the log it leaves behind, and either the value it returns or the        *)
(* exception it raises (field raised, with the text of str(e) in message). *)
(* Every exception raised here is a subclass of Exception.                 *)

\* a contract hash string: whether it starts with "0x", and its hex digits
Hash(prefix, digits) == [prefix |-> prefix, digits |-> digits]
GoodHash == Hash(TRUE, 40)
BadHash == Hash(FALSE, 7)
EmptyHash == Hash(FALSE, 0)
HashLen(h) == (IF h.prefix THEN 2 ELSE 0) + h.digits

\* ChattenTraderAgent.__init__ builds both tools from the same contract
\* hash; the private key comes from the environment
TraderTools(neo3_available, contract_hash, private_key) ==
    [NEO3_AVAILABLE |-> neo3_available,
     price_tool |-> [contract_hash |-> contract_hash, _facade |-> None],
     buy_tool |-> [contract_hash |-> contract_hash, private_key |-> private_key,
                   _facade |-> None, _account |-> None]]

Raise(type, message, self, log) ==
    [raised |-> type, message |-> message, self |-> self, log |-> log]

Return(value, self, log) == [value |-> value, self |-> self, log |-> log]

Raised(outcome) == "raised" \in DOMAIN outcome

\* input() at end of input
EndOfInput == [eof |-> TRUE]

\* get_contract_hash(): the line typed at the prompt, its "0x" prefix removed
get_contract_hash(typed) ==
    IF typed = EndOfInput THEN [raised |-> "EOFError", message |-> "EOF when reading a line"]
    ELSE [value |-> [typed EXCEPT !.prefix = FALSE]]

\* the hash of the tool, or the typed one when the tool has none; a string
\* of length 40 gets "0x" in front; UInt160.from_string accepts "0x" and 40
\* hex digits
contract_script_hash(contract_hash, typed) ==
    LET given == IF contract_hash # None /\ HashLen(contract_hash) > 0
                 THEN [value |-> contract_hash]
                 ELSE get_contract_hash(typed)
    IN  IF Raised(given) THEN given
        ELSE LET h == given.value
                 prefixed == IF HashLen(h) = 40
                             THEN Hash(TRUE, IF h.prefix THEN 0 ELSE h.digits)
                             ELSE h
             IN IF prefixed.prefix /\ prefixed.digits = 40
                THEN [value |-> prefixed]
                ELSE [raised |-> "ValueError", message |-> "invalid UInt160 format"]

\* what the node answers to test_invoke and to invoke
RpcError == [rpc_error |-> "connection refused"]
Stack(items) == [stack |-> items]
Tx(hash) == [hash |-> hash]

\* PriceCheckTool.get_price(model_id)
get_price(self, log, model_id, typed, answer) ==
    IF ~self.NEO3_AVAILABLE
    THEN Raise("ImportError", "neo-mamba is not installed", self, log)
    ELSE
    LET hash == contract_script_hash(self.price_tool.contract_hash, typed) IN
    IF Raised(hash) THEN Raise(hash.raised, hash.message, self, log)
    ELSE
    LET withFacade == [self EXCEPT !.price_tool._facade = [obj |-> "ChainFacade"]]
        invoked == Append(log, [method |-> "test_invoke",
                                operation |-> "get_current_price",
                                model_id |-> model_id,
                                answer |-> answer])
    IN  IF answer = RpcError
        THEN Raise("RuntimeError", "Failed to fetch price: connection refused",
                   withFacade, invoked)
        ELSE IF Len(answer.stack) > 0
        THEN Return(answer.stack[1], withFacade, invoked)
        ELSE Raise("RuntimeError", "Failed to fetch price: No price data returned",
                   withFacade, invoked)

\* run with get_price's exceptions let through to the caller
PriceCheckTool_run_uncaught(self, log, kwargs, typed, answer) ==
    LET model_id == Get(kwargs, "model_id", "") IN
    IF model_id = ""
    THEN Return([error |-> "model_id is required"], self, log)
    ELSE LET price == get_price(self, log, model_id, typed, answer) IN
         IF Raised(price) THEN price
         ELSE Return([model_id |-> model_id, price |-> price.value,
                      success |-> TRUE], price.self, price.log)

\* PriceCheckTool.run(**kwargs)
PriceCheckTool_run(self, log, kwargs, typed, answer) ==
    LET model_id == Get(kwargs, "model_id", "") IN
    IF model_id = ""
    THEN Return([error |-> "model_id is required"], self, log)
    ELSE LET price == get_price(self, log, model_id, typed, answer) IN
         IF Raised(price)
         THEN Return([error |-> price.message, success |-> FALSE],
                     price.self, price.log)
         ELSE Return([model_id |-> model_id, price |-> price.value,
                      success |-> TRUE], price.self, price.log)

\* GAS amounts are in billionths of a GAS, so that an amount below one
\* smallest unit (10^-8 GAS) can be written
GasScale == 1000000000
GAS_DECIMALS_FACTOR == 100000000

\* int(gas_amount * 100_000_000): the smallest units, truncated toward zero
gas_amount_int(gas_amount) ==
    IF gas_amount >= 0 THEN gas_amount \div (GasScale \div GAS_DECIMALS_FACTOR)
    ELSE -((-gas_amount) \div (GasScale \div GAS_DECIMALS_FACTOR))

\* BuyComputeTool._get_account()
_get_account(self) ==
    IF self.buy_tool._account # None THEN [value |-> self]
    ELSE IF self.buy_tool.private_key = None \/ self.buy_tool.private_key.wif = ""
    THEN [raised |-> "ValueError",
          message |-> "NEO_PRIVATE_KEY not set in environment or provided"]
    ELSE IF ~self.NEO3_AVAILABLE
    THEN [raised |-> "ImportError", message |-> "neo-mamba is not installed"]
    ELSE [value |-> [self EXCEPT !.buy_tool._account = [obj |-> "Account"]]]

\* BuyComputeTool.buy_credits(model_id, gas_amount)
buy_credits(self, log, model_id, gas_amount, typed, answer) ==
    IF ~self.NEO3_AVAILABLE
    THEN Raise("ImportError", "neo-mamba is not installed", self, log)
    ELSE
    LET hash == contract_script_hash(self.buy_tool.contract_hash, typed) IN
    IF Raised(hash) THEN Raise(hash.raised, hash.message, self, log)
    ELSE
    LET account == _get_account(self) IN
    IF Raised(account) THEN Raise(account.raised, account.message, self, log)
    ELSE
    LET withFacade == [account.value EXCEPT !.buy_tool._facade = [obj |-> "ChainFacade"]]
        invoked == Append(log, [method |-> "invoke",
                                operation |-> "transfer",
                                amount |-> gas_amount_int(gas_amount),
                                model_id |-> model_id,
                                answer |-> answer])
    IN  IF answer = RpcError
        THEN Return([success |-> FALSE, error |-> "connection refused",
                     gas_amount |-> gas_amount, model_id |-> model_id],
                    withFacade, invoked)
        ELSE Return([success |-> TRUE, tx_hash |-> answer.hash,
                     gas_amount |-> gas_amount, model_id |-> model_id,
                     message |-> "Successfully initiated buy order"],
                    withFacade, invoked)

\* run with the amount checked only after the order was placed
BuyComputeTool_run_late_check(self, log, kwargs, typed, answer) ==
    LET model_id == Get(kwargs, "model_id", "")
        gas_amount == Get(kwargs, "gas_amount", 0)
    IN  IF model_id = ""
        THEN Return([error |-> "model_id is required", success |-> FALSE], self, log)
        ELSE LET result == buy_credits(self, log, model_id, gas_amount, typed, answer) IN
             IF gas_amount <= 0
             THEN Return([error |-> "gas_amount must be greater than 0",
                          success |-> FALSE], result.self, result.log)
             ELSE IF Raised(result)
             THEN Return([error |-> result.message, success |-> FALSE],
                         result.self, result.log)
             ELSE result

\* BuyComputeTool.run(**kwargs)
BuyComputeTool_run(self, log, kwargs, typed, answer) ==
    LET model_id == Get(kwargs, "model_id", "")
        gas_amount == Get(kwargs, "gas_amount", 0)
    IN  IF model_id = ""
        THEN Return([error |-> "model_id is required", success |-> FALSE], self, log)
        ELSE IF gas_amount <= 0
        THEN Return([error |-> "gas_amount must be greater than 0",
                     success |-> FALSE], self, log)
        ELSE LET result == buy_credits(self, log, model_id, gas_amount, typed, answer) IN
             IF Raised(result)
             THEN Return([error |-> result.message, success |-> FALSE],
                         result.self, result.log)
             ELSE result

------------------------------------------------------------------------------
(* main.run_agent(agent, config)                                           *)

\* the locals of run_agent: the statement it is at, its arguments, the agent
\* hooks awaited so far with how each ended, the banner values printed, and
\* the exception in flight ("none" when there is none)
RunAgentState(pc, agent, config, hooks, printed, exception) ==
    [pc |-> pc, agent |-> agent, config |-> config, hooks |-> hooks,
     printed |-> printed, exception |-> exception]

\* run_agent has not been entered
NotStarted == RunAgentState("not started", None, None, <<>>, <<>>, "none")

TestnetUrl == "https://testnet1.neo.coz.io:443"
MainnetUrl == "https://mainnet1.neo.coz.io:443"

\* 'testnet' in url
ContainsTestnet(url) == url = TestnetUrl

\* the banner: agent.name, config['neo']['rpc_url'] and
\* agent.neo_wallet_address are read before the try statement is entered
Banner(agent, config) ==
    IF "name" \notin DOMAIN agent THEN [raised |-> "AttributeError"]
    ELSE IF "neo" \notin DOMAIN config THEN [raised |-> "KeyError"]
    ELSE IF "rpc_url" \notin DOMAIN config.neo THEN [raised |-> "KeyError"]
    ELSE IF "neo_wallet_address" \notin DOMAIN agent THEN [raised |-> "AttributeError"]
    ELSE [printed |-> <<agent.name,
                        IF ContainsTestnet(config.neo.rpc_url) THEN "TestNet" ELSE "MainNet",
                        IF agent.neo_wallet_address = "" THEN "Not configured"
                        ELSE agent.neo_wallet_address>>]

\* NeoBridgeTool.__init__: no client, no facade, no wallet, no account
NeoBridgeTool == [_client |-> None, _facade |-> None, _wallet |-> None, _account |-> None]

\* Each method of the bridge maps the object to the object it leaves behind
\* (self) and the value it returns.

\* connect as its commented-out lines would have it: a client is created
connect_implemented(self) ==
    [self |-> [self EXCEPT !._client = [obj |-> "NeoRpcClient"],
                           !._facade = [obj |-> "ChainFacade"]],
     value |-> TRUE]

\* the RPC connection is not implemented
connect(self) == [self |-> self, value |-> FALSE]

disconnect(self) == [self |-> self, value |-> None]

is_connected(self) == self._client # None

\* the wallet loading is not implemented
load_wallet(self, wallet_path, password) == [self |-> self, value |-> FALSE]

\* the address retrieval is not implemented
get_address(self) == None

\* NeoBridgeTool.run(**kwargs): the routing is not implemented, every action
\* is answered as unknown
NeoBridgeTool_run(kwargs) ==
    LET action == Get(kwargs, "action", "")
    IN [error |-> "Unknown action", action |-> action]

\* TokenTransferTool.transfer and .approve: not implemented
TokenTransferTool_transfer == [success |-> FALSE, error |-> "Not implemented"]
TokenTransferTool_approve == [success |-> FALSE, error |-> "Not implemented"]

\* TokenTransferTool.run(**kwargs)
TokenTransferTool_run(kwargs) ==
    LET action == Get(kwargs, "action", "transfer") IN
    IF action = "transfer" THEN TokenTransferTool_transfer
    ELSE IF action = "approve" THEN TokenTransferTool_approve
    ELSE [error |-> "Unknown action"]

------------------------------------------------------------------------------
(* Swap pricing.  The contract module is not part of the sources; its fee  *)
(* and output formulas are the ones test_contract.py simulates.            *)

TOKEN_DECIMALS == 8
ONE_TOKEN == 100000000

\* the division made before the multiplication
SwapFeeDivideFirst(gas_amount) == (gas_amount \div 1000) * 3

\* fee = gas_amount * 3 // 1000
SwapFee(gas_amount) == (gas_amount * 3) \div 1000

\* net = gas_amount - fee
NetAmount(gas_amount) == gas_amount - SwapFee(gas_amount)

\* floor(r * 10^k / d) + q * 10^k by long division, one decimal digit a
\* step, so that no intermediate value exceeds 10 * d
RECURSIVE ShiftDiv(_, _, _, _)
ShiftDiv(q, r, d, k) ==
    IF k = 0 THEN q
    ELSE ShiftDiv(q * 10 + (r * 10) \div d, (r * 10) % d, d, k - 1)

\* compute = net * ONE_TOKEN // price, with ONE_TOKEN = 10 ** TOKEN_DECIMALS
\* the quotient rounded up past the floor
ComputeOutRoundedUp(net, price) == ShiftDiv(net \div price, net % price, price, TOKEN_DECIMALS) + 1

ComputeOut(net, price) == ShiftDiv(net \div price, net % price, price, TOKEN_DECIMALS)

\* a non-positive price clamped to 1 instead of being refused
quoteBuyClamped(baseAmountIn, price) ==
    LET p == Max(price, 1) IN
    [ok |-> TRUE,
     fee |-> SwapFee(baseAmountIn),
     net |-> NetAmount(baseAmountIn),
     tokenAmountOut |-> ComputeOut(NetAmount(baseAmountIn), p)]

\* quoteBuy(baseAmountIn, price) -> tokenAmountOut, failing on price <= 0
quoteBuy(baseAmountIn, price) ==
    IF price <= 0
    THEN [ok |-> FALSE, error |-> "price must be positive"]
    ELSE [ok |-> TRUE,
          fee |-> SwapFee(baseAmountIn),
          net |-> NetAmount(baseAmountIn),
          tokenAmountOut |-> ComputeOut(NetAmount(baseAmountIn), price)]

\* floor(a * b / ONE_TOKEN) for a, b >= 0, multiplied in halves of four
\* decimal digits so that no intermediate value exceeds 4 * ONE_TOKEN
MulDivOneToken(a, b) ==
    LET half == 10000
        ah == a \div half
        al == a % half
        bh == b \div half
        bl == b % half
        mid == ah * bl + al * bh
    IN  ah * bh + mid \div half + ((mid % half) * half + al * bl) \div ONE_TOKEN

\* the fee taken from the base-asset output instead of the token leg
quoteSellFeeOnOutput(tokenAmountIn, price) ==
    IF price <= 0
    THEN [ok |-> FALSE, error |-> "price must be positive"]
    ELSE LET gross == MulDivOneToken(tokenAmountIn, price) IN
         [ok |-> TRUE,
          fee |-> SwapFee(gross),
          net |-> tokenAmountIn,
          baseAmountOut |-> NetAmount(gross)]

\* quoteSell(tokenAmountIn, price) -> baseAmountOut: the fee and the net
\* amount on the token leg, the output in base-asset smallest units
quoteSell(tokenAmountIn, price) ==
    IF price <= 0
    THEN [ok |-> FALSE, error |-> "price must be positive"]
    ELSE [ok |-> TRUE,
          fee |-> SwapFee(tokenAmountIn),
          net |-> NetAmount(tokenAmountIn),
          baseAmountOut |-> MulDivOneToken(NetAmount(tokenAmountIn), price)]

------------------------------------------------------------------------------
(* Inputs of the scoring functions.  Every comparison of the code is       *)
(* sampled one unit below, at and one unit above its threshold, together   *)
(* with the values the test suite uses.                                    *)

Around(S) == UNION {{t - 1, t, t + 1} : t \in S}

LatencySamples ==
    Around({0, 50 * Scale, 100 * Scale, 200 * Scale, 500 * Scale, 1000 * Scale})
    \cup {-1 * Scale, 25 * Scale, 75 * Scale, 150 * Scale, 350 * Scale,
          750 * Scale, 2000 * Scale}

ThroughputSamples ==
    Around({50 * Scale, 100 * Scale, 200 * Scale, 500 * Scale, 1000 * Scale})
    \cup {-1 * Scale, 0, 25 * Scale, 750 * Scale, 1500 * Scale}

AccuracySamples == Around({0, 1 * Scale}) \cup {-500, 500, 600, 950, 1500}

BenchmarkSamples ==
    Around({0, 100 * Scale}) \cup {-10 * Scale, 40 * Scale, 85 * Scale, 150 * Scale}

UptimeSamples ==
    Around({90 * Scale, 95 * Scale, 99 * Scale, 99900})
    \cup {-1 * Scale, 0, 99990, 100 * Scale}

ErrorRateSamples == Around({0, 10, 50, 100}) \cup {-100, 500, 1 * Scale}

\* conftest.py sample_performance_metrics
SampleMetrics == PerformanceMetrics(50 * Scale, 1000 * Scale, 950, 85 * Scale, 99900, 1)
\* conftest.py sample_poor_metrics
PoorMetrics == PerformanceMetrics(500 * Scale, 100 * Scale, 600, 40 * Scale, 90 * Scale, 100)
\* conftest.py excellent_metrics
ExcellentMetrics == PerformanceMetrics(25 * Scale, 1500 * Scale, 990, 95 * Scale, 99990, 1)

LatencyCalls ==
    {[fn |-> "_calculate_latency_score",
      metrics |-> [SampleMetrics EXCEPT !.avg_latency_ms = L]] : L \in LatencySamples}

ThroughputCalls ==
    {[fn |-> "_calculate_throughput_score",
      metrics |-> [SampleMetrics EXCEPT !.tokens_per_second = T]] : T \in ThroughputSamples}

QualityCalls ==
    {[fn |-> "_calculate_quality_score",
      metrics |-> [SampleMetrics EXCEPT !.accuracy_score = a, !.benchmark_score = b]] :
        a \in AccuracySamples, b \in BenchmarkSamples}

ReliabilityCalls ==
    {[fn |-> "_calculate_reliability_score",
      metrics |-> [SampleMetrics EXCEPT !.uptime_percentage = u, !.error_rate = e]] :
        u \in UptimeSamples, e \in ErrorRateSamples}

\* fractions and composites on both sides of every comparison of
\* _generate_recommendations
FractionSamples == {0, Tenths(5) - 1, Tenths(5), Tenths(10)}
CompositeSamples ==
    {0, MIN_SCORE_FOR_MINT * FracScale - 1, MIN_SCORE_FOR_MINT * FracScale,
     EXCELLENT_THRESHOLD * FracScale - 1, EXCELLENT_THRESHOLD * FracScale,
     100 * FracScale}

RecommendationCalls ==
    {[fn |-> "_generate_recommendations", q_score |-> q, latency |-> l,
      throughput |-> t, quality |-> qu, reliability |-> r] :
        q \in CompositeSamples, l \in FractionSamples, t \in FractionSamples,
        qu \in FractionSamples, r \in FractionSamples}

\* snapshots handed to calculate_q_score: every latency and throughput band
\* that matters for the composite, in- and out-of-range quality inputs, and
\* reliability from 0.0 to 1.0
ScoredSnapshots ==
    {PerformanceMetrics(l, t, a, b, u, e) :
        l \in {0, 25 * Scale, 150 * Scale, 350 * Scale},
        t \in {0, 100 * Scale, 200 * Scale, 1000 * Scale},
        a \in {0, 500, 1500},
        b \in {-10 * Scale, 100 * Scale - 1, 100 * Scale},
        u \in {0, 95 * Scale, 99900},
        e \in {0, 50, 100}}
    \cup {DefaultMetrics, SampleMetrics, PoorMetrics, ExcellentMetrics}

ModelIds == {"model-a", "model-b"}

ScoreCalls ==
    {[fn |-> "calculate_q_score", model_id |-> "model-a", metrics |-> m,
      category |-> c] : m \in ScoredSnapshots, c \in Categories}

------------------------------------------------------------------------------
(* The scoring functions applied to one drawn input *)

Pending(fn) == call.fn = fn /\ ret = NoRet

\* the call returns value; ids are the model ids whose cached snapshot
\* object the value refers to
ReturnsSharing(value, ids) ==
    /\ ret' = [fn |-> call.fn, value |-> value]
    /\ shared' = ids
    /\ UNCHANGED <<metrics_cache, call, writes, task, bridge, tools, chain, lifecycle>>

Returns(value) == ReturnsSharing(value, {})

CalculateLatencyScore ==
    /\ Pending("_calculate_latency_score")
    /\ Returns(_calculate_latency_score(call.metrics))

CalculateThroughputScore ==
    /\ Pending("_calculate_throughput_score")
    /\ Returns(_calculate_throughput_score(call.metrics))

CalculateQualityScore ==
    /\ Pending("_calculate_quality_score")
    /\ Returns(_calculate_quality_score(call.metrics))

CalculateReliabilityScore ==
    /\ Pending("_calculate_reliability_score")
    /\ Returns(_calculate_reliability_score(call.metrics))

GenerateRecommendations ==
    /\ Pending("_generate_recommendations")
    /\ Returns(_generate_recommendations(call.q_score, call.latency,
            call.throughput, call.quality, call.reliability))

\* the snapshot that was fetched is stored in the cache
CalculateQScoreCaching ==
    /\ Pending("calculate_q_score")
    /\ ret' = [fn |-> call.fn,
               value |-> calculate_q_score(metrics_cache, call.model_id,
                                           call.metrics, call.category)]
    /\ metrics_cache' =
          [m \in DOMAIN metrics_cache \cup {call.model_id} |->
              _fetch_metrics(metrics_cache, m)]
    /\ shared' = {call.model_id}
    /\ UNCHANGED <<call, writes, task, bridge, tools, chain, lifecycle>>

\* _fetch_metrics returns the cached object itself, which becomes the
\* metrics of the result
CalculateQScore ==
    /\ Pending("calculate_q_score")
    /\ ReturnsSharing(
          calculate_q_score(metrics_cache, call.model_id, call.metrics,
                            call.category),
          IF call.metrics = None THEN {call.model_id} \cap DOMAIN metrics_cache
          ELSE {})

\* the state of a tool just constructed, before any call
Constructed ==
    /\ metrics_cache = EmptyCache
    /\ writes = <<>>
    /\ shared = {}
    /\ task = NoTask
    /\ bridge = NeoBridgeTool
    /\ tools = TraderTools(FALSE, None, None)
    /\ chain = <<>>
    /\ lifecycle = NotStarted

ScoreInit ==
    /\ Constructed
    /\ call \in LatencyCalls \cup ThroughputCalls \cup QualityCalls
                \cup ReliabilityCalls \cup RecommendationCalls \cup ScoreCalls
    /\ ret = NoRet

ScoreNext ==
    \/ CalculateLatencyScore
    \/ CalculateThroughputScore
    \/ CalculateQualityScore
    \/ CalculateReliabilityScore
    \/ GenerateRecommendations
    \/ CalculateQScore

SpecScore == ScoreInit /\ [][ScoreNext]_vars

------------------------------------------------------------------------------
(* Quotes for one drawn amount and price *)

\* quotes of more whole tokens than this are left out
MaxWholeTokens == 19

AmountSamples ==
    {0, 1, 333, 334, 999, 1000, 1001, 33333,
     10000000, 99999999, 100000000, 200000000}

PriceSamples ==
    {-50000000, -1, 0, 1, 3, 7, 1000, 999999, 1000000,
     50000000, 100000000, 123456789}

QuoteCalls ==
    {c \in {[fn |-> "quoteBuy", baseAmountIn |-> a, price |-> p] :
                a \in AmountSamples, p \in PriceSamples} :
        c.price <= 0 \/ c.baseAmountIn \div c.price <= MaxWholeTokens}

QuoteBuy ==
    /\ Pending("quoteBuy")
    /\ Returns(quoteBuy(call.baseAmountIn, call.price))

SellCalls ==
    {[fn |-> "quoteSell", tokenAmountIn |-> a, price |-> p] :
        a \in AmountSamples, p \in PriceSamples}

QuoteSell ==
    /\ Pending("quoteSell")
    /\ Returns(quoteSell(call.tokenAmountIn, call.price))

PriceInit ==
    /\ Constructed
    /\ call \in QuoteCalls \cup SellCalls
    /\ ret = NoRet

PriceNext ==
    \/ QuoteBuy
    \/ QuoteSell

SpecPrice == PriceInit /\ [][PriceNext]_vars

------------------------------------------------------------------------------
(* The analyzer tool in use: cache writes and scoring calls in any order *)

\* longest model_ids list handed to compare_models
MaxModelIds == 3

CachedSnapshots == {SampleMetrics, PoorMetrics, ExcellentMetrics}

RECURSIVE SeqsUpTo(_, _)
SeqsUpTo(S, n) ==
    IF n = 0 THEN {<<>>}
    ELSE LET shorter == SeqsUpTo(S, n - 1)
         IN shorter \cup {Append(q, x) : q \in {t \in shorter : Len(t) = n - 1}, x \in S}

\* run(**kwargs) with no keyword at all
NoKwargs == [k \in {} |-> ""]

\* action selectors no tool knows
UnknownActions == {"", "bogus", "mint"}

AnalyzerKwargs ==
    {NoKwargs,
     [action |-> "calculate", model_id |-> "model-a"],
     [action |-> "compare", model_ids |-> <<"model-b", "model-a">>],
     [action |-> "compare"],
     [action |-> "market"]}
    \cup {[action |-> a, model_id |-> "model-a"] : a \in UnknownActions}

BridgeKwargs ==
    {NoKwargs, [action |-> "connect"], [action |-> "invoke"]}
    \cup {[action |-> a] : a \in UnknownActions}

TransferKwargs ==
    {NoKwargs, [action |-> "transfer", to |-> "NAddr", token_id |-> "1"],
     [action |-> "approve", approved |-> "NAddr", token_id |-> "1"]}
    \cup {[action |-> a, to |-> "NAddr", token_id |-> "1"] : a \in UnknownActions}

\* the connection and wallet methods of the bridge
BridgeCalls ==
    {[fn |-> "NeoBridgeTool.connect"], [fn |-> "NeoBridgeTool.disconnect"],
     [fn |-> "NeoBridgeTool.is_connected"], [fn |-> "NeoBridgeTool.get_address"]}
    \cup {[fn |-> "NeoBridgeTool.load_wallet", wallet_path |-> "wallet.json",
           password |-> pw] : pw \in {"", "secret"}}

ToolCalls ==
    {[fn |-> "calculate_q_score", model_id |-> m, metrics |-> None,
      category |-> "llm"] : m \in ModelIds}
    \cup {[fn |-> "calculate_q_score", model_id |-> "model-a",
           metrics |-> PoorMetrics, category |-> "llm"]}
    \cup {[fn |-> "compare_models", model_ids |-> ids] :
            ids \in SeqsUpTo(ModelIds, MaxModelIds)}
    \cup {[fn |-> "get_market_analysis"]}
    \cup {[fn |-> "run", kwargs |-> k] : k \in AnalyzerKwargs}
    \cup {[fn |-> "NeoBridgeTool.run", kwargs |-> k] : k \in BridgeKwargs}
    \cup {[fn |-> "TokenTransferTool.run", kwargs |-> k] : k \in TransferKwargs}
    \cup BridgeCalls

\* most cache writes in one behaviour
MaxWrites == 2

\* a write that leaves an entry already present as it is
PutMetricsKeepFirst(model_id, snapshot) ==
    /\ Len(writes) < MaxWrites
    /\ metrics_cache' =
          [m \in DOMAIN metrics_cache \cup {model_id} |->
              IF m \in DOMAIN metrics_cache THEN metrics_cache[m] ELSE snapshot]
    /\ writes' = Append(writes, [model_id |-> model_id, snapshot |-> snapshot])
    /\ shared' = shared \ {model_id}
    /\ task' = IF task = NoTask THEN task
               ELSE [task EXCEPT !.fetched = @ \ {model_id}]
    /\ UNCHANGED <<call, ret, bridge, tools, chain, lifecycle>>

\* self._metrics_cache[model_id] = snapshot, a snapshot object of its own:
\* the object it replaces stays with the results that hold it
PutMetrics(model_id, snapshot) ==
    /\ Len(writes) < MaxWrites
    /\ metrics_cache' =
          [m \in DOMAIN metrics_cache \cup {model_id} |->
              IF m = model_id THEN snapshot ELSE metrics_cache[m]]
    /\ writes' = Append(writes, [model_id |-> model_id, snapshot |-> snapshot])
    /\ shared' = shared \ {model_id}
    /\ task' = IF task = NoTask THEN task
               ELSE [task EXCEPT !.fetched = @ \ {model_id}]
    /\ UNCHANGED <<call, ret, bridge, tools, chain, lifecycle>>

\* a caller makes the next call once the previous one has returned
Invoke(c) ==
    /\ call = NoCall \/ ret # NoRet
    /\ call' = c
    /\ ret' = NoRet
    /\ shared' = {}
    /\ UNCHANGED <<metrics_cache, writes, task, bridge, tools, chain, lifecycle>>

CompareModels ==
    /\ Pending("compare_models")
    /\ ReturnsSharing(
          compare_models(metrics_cache, call.model_ids),
          {call.model_ids[i] : i \in 1..Len(call.model_ids)}
              \cap DOMAIN metrics_cache)

GetMarketAnalysis ==
    /\ Pending("get_market_analysis")
    /\ Returns(get_market_analysis(metrics_cache))

\* the dicts run returns hold scores, not snapshot objects
Run ==
    /\ Pending("run")
    /\ Returns(run(metrics_cache, call.kwargs))

NeoBridgeRun ==
    /\ Pending("NeoBridgeTool.run")
    /\ Returns(NeoBridgeTool_run(call.kwargs))

TokenTransferRun ==
    /\ Pending("TokenTransferTool.run")
    /\ Returns(TokenTransferTool_run(call.kwargs))

\* a bridge method returns value and leaves the bridge object as self
BridgeReturns(result) ==
    /\ ret' = [fn |-> call.fn, value |-> result.value]
    /\ bridge' = result.self
    /\ shared' = {}
    /\ UNCHANGED <<metrics_cache, call, writes, task, tools, chain, lifecycle>>

NeoBridgeConnect ==
    /\ Pending("NeoBridgeTool.connect")
    /\ BridgeReturns(connect(bridge))

NeoBridgeDisconnect ==
    /\ Pending("NeoBridgeTool.disconnect")
    /\ BridgeReturns(disconnect(bridge))

NeoBridgeLoadWallet ==
    /\ Pending("NeoBridgeTool.load_wallet")
    /\ BridgeReturns(load_wallet(bridge, call.wallet_path, call.password))

NeoBridgeIsConnected ==
    /\ Pending("NeoBridgeTool.is_connected")
    /\ Returns(is_connected(bridge))

NeoBridgeGetAddress ==
    /\ Pending("NeoBridgeTool.get_address")
    /\ Returns(get_address(bridge))

Init ==
    /\ Constructed
    /\ call = NoCall
    /\ ret = NoRet

Next ==
    \/ \E m \in ModelIds, s \in CachedSnapshots : PutMetrics(m, s)
    \/ \E c \in ToolCalls : Invoke(c)
    \/ CalculateQScore
    \/ CompareModels
    \/ GetMarketAnalysis
    \/ Run
    \/ NeoBridgeRun
    \/ TokenTransferRun
    \/ NeoBridgeConnect
    \/ NeoBridgeDisconnect
    \/ NeoBridgeLoadWallet
    \/ NeoBridgeIsConnected
    \/ NeoBridgeGetAddress

Spec == Init /\ [][Next]_vars

------------------------------------------------------------------------------
(* calculate_q_score and compare_models run one statement at a time, with  *)
(* cache writes of other threads between any two statements.  A dict read  *)
(* or write is one step; the fetched snapshot is a local of the call.      *)

\* longest model_ids list of a compare_models call run by statements
MaxInterleavedIds == 2

InterleavedCalls ==
    {[fn |-> "calculate_q_score", model_id |-> m, metrics |-> None,
      category |-> "llm"] : m \in ModelIds}
    \cup {[fn |-> "compare_models", model_ids |-> ids] :
            ids \in SeqsUpTo(ModelIds, MaxInterleavedIds)}

\* QScoreResult(...) built from the locals of calculate_q_score
build_result(model_id, category, metrics, latency_score, throughput_score, quality_score, reliability_score) ==
    LET q_score == WeightedComposite(latency_score, throughput_score,
                                     quality_score, reliability_score)
    IN [model_id |-> model_id,
        q_score |-> q_score,
        category |-> category,
        metrics |-> metrics,
        latency_score |-> latency_score * 25,
        throughput_score |-> throughput_score * 25,
        quality_score |-> quality_score * 25,
        reliability_score |-> reliability_score * 25,
        recommendations |-> _generate_recommendations(
            q_score, latency_score, throughput_score,
            quality_score, reliability_score),
        mint_eligible |-> MintEligible(q_score)]

At(pc) == task # NoTask /\ task.pc = pc

Goto(pc) == UNCHANGED <<metrics_cache, call, ret, writes, shared, bridge, tools, chain, lifecycle>>

\* the call is entered: model_ids are the ids still to be scored, fetched
\* the ids whose cached snapshot object the call holds
StartScoring ==
    /\ Pending("calculate_q_score") \/ Pending("compare_models")
    /\ task = NoTask
    /\ LET ids == IF call.fn = "calculate_q_score"
                  THEN <<call.model_id>> ELSE call.model_ids
       IN task' = [pc |-> IF ids = <<>> THEN "return" ELSE "fetch",
                   model_ids |-> ids,
                   results |-> <<>>,
                   metrics |-> None,
                   fetched |-> {},
                   latency_score |-> 0,
                   throughput_score |-> 0,
                   quality_score |-> 0,
                   reliability_score |-> 0]
    /\ Goto("fetch")

\* metrics = await self._fetch_metrics(model_id)
FetchStep ==
    /\ At("fetch")
    /\ task' = [task EXCEPT
                  !.pc = "latency",
                  !.metrics = _fetch_metrics(metrics_cache, Head(task.model_ids)),
                  !.fetched = @ \cup ({Head(task.model_ids)} \cap DOMAIN metrics_cache)]
    /\ Goto("latency")

LatencyStep ==
    /\ At("latency")
    /\ task' = [task EXCEPT
                  !.pc = "throughput",
                  !.latency_score = _calculate_latency_score(task.metrics)]
    /\ Goto("throughput")

\* the throughput read from the cache entry again instead of the local
ThroughputStepRefetch ==
    /\ At("throughput")
    /\ task' = [task EXCEPT
                  !.pc = "quality",
                  !.throughput_score = _calculate_throughput_score(
                      _fetch_metrics(metrics_cache, Head(task.model_ids)))]
    /\ Goto("quality")

ThroughputStep ==
    /\ At("throughput")
    /\ task' = [task EXCEPT
                  !.pc = "quality",
                  !.throughput_score = _calculate_throughput_score(task.metrics)]
    /\ Goto("quality")

QualityStep ==
    /\ At("quality")
    /\ task' = [task EXCEPT
                  !.pc = "reliability",
                  !.quality_score = _calculate_quality_score(task.metrics)]
    /\ Goto("reliability")

ReliabilityStep ==
    /\ At("reliability")
    /\ task' = [task EXCEPT
                  !.pc = "build",
                  !.reliability_score = _calculate_reliability_score(task.metrics)]
    /\ Goto("build")

\* the composite, the mint flag, the recommendations and the QScoreResult;
\* in compare_models the result is appended and the loop goes on
BuildStep ==
    /\ At("build")
    /\ LET result == build_result(
               Head(task.model_ids),
               IF call.fn = "calculate_q_score" THEN call.category ELSE "llm",
               task.metrics, task.latency_score, task.throughput_score,
               task.quality_score, task.reliability_score)
           rest == Tail(task.model_ids)
       IN task' = [task EXCEPT
                     !.pc = IF rest = <<>> THEN "return" ELSE "fetch",
                     !.model_ids = rest,
                     !.results = Append(task.results, result)]
    /\ Goto("return")

\* return QScoreResult(...), or return sorted(results, ...)
ReturnStep ==
    /\ At("return")
    /\ ret' = [fn |-> call.fn,
               value |-> IF call.fn = "calculate_q_score"
                         THEN task.results[1]
                         ELSE SortedByQScoreDesc(task.results)]
    /\ shared' = task.fetched
    /\ task' = NoTask
    /\ UNCHANGED <<metrics_cache, call, writes, bridge, tools, chain, lifecycle>>

InterleavedNext ==
    \/ \E m \in ModelIds, s \in CachedSnapshots : PutMetrics(m, s)
    \/ \E c \in InterleavedCalls : Invoke(c)
    \/ StartScoring
    \/ FetchStep
    \/ LatencyStep
    \/ ThroughputStep
    \/ QualityStep
    \/ ReliabilityStep
    \/ BuildStep
    \/ ReturnStep

SpecInterleaved == Init /\ [][InterleavedNext]_vars

------------------------------------------------------------------------------
(* Snapshot objects updated in place.  PerformanceMetrics is a mutable     *)
(* dataclass and _fetch_metrics hands out the cached object itself, so an  *)
(* assignment to a field of a cached snapshot is seen through every        *)
(* reference to that object.                                               *)

\* the latencies, in thousandths of a millisecond, a cached snapshot is
\* updated to
UpdatedLatencies == {2000 * Scale}

AliasCalls ==
    {[fn |-> "calculate_q_score", model_id |-> m, metrics |-> None,
      category |-> "llm"] : m \in ModelIds}
    \cup {[fn |-> "compare_models", model_ids |-> <<"model-a", "model-b">>]}

\* the same assignment seen through a result that holds the object
SeenThrough(result, model_id, latency) ==
    IF result.model_id = model_id
    THEN [result EXCEPT !.metrics.avg_latency_ms = latency]
    ELSE result

\* self._metrics_cache[model_id].avg_latency_ms = latency
UpdateCached(model_id, latency) ==
    /\ model_id \in DOMAIN metrics_cache
    /\ metrics_cache' =
          [metrics_cache EXCEPT ![model_id].avg_latency_ms = latency]
    /\ ret' =
          IF ret = NoRet \/ model_id \notin shared THEN ret
          ELSE IF ret.fn = "calculate_q_score"
          THEN [ret EXCEPT !.value = SeenThrough(@, model_id, latency)]
          ELSE [ret EXCEPT !.value =
                  [i \in 1..Len(@) |-> SeenThrough(@[i], model_id, latency)]]
    /\ task' =
          IF task = NoTask \/ model_id \notin task.fetched THEN task
          ELSE [task EXCEPT !.metrics.avg_latency_ms = latency]
    /\ UNCHANGED <<call, writes, shared, bridge, tools, chain, lifecycle>>

AliasNext ==
    \/ \E m \in ModelIds, s \in CachedSnapshots : PutMetrics(m, s)
    \/ \E m \in ModelIds, l \in UpdatedLatencies : UpdateCached(m, l)
    \/ \E c \in AliasCalls : Invoke(c)
    \/ CalculateQScore
    \/ CompareModels

SpecAlias == Init /\ [][AliasNext]_vars

------------------------------------------------------------------------------
(* The trader's tools called one after the other.  ChattenTraderAgent      *)
(* registers both tools with the agent loop of the SDK (tools=[price_tool, *)
(* buy_tool]); which tool is run next, and with which arguments, is chosen *)
(* by the language model that the loop consults, so every call is possible *)
(* at every point.                                                         *)

\* most RPC calls in one behaviour
MaxChainCalls == 2

\* the price threshold and the order size named in SYSTEM_PROMPT
PRICE_THRESHOLD == 1000000
ORDER_GAS == 2 * GasScale

TraderModelId == "gpt-4"

PriceKwargs == {NoKwargs, [model_id |-> ""], [model_id |-> TraderModelId]}

\* gas_amount values: -1.0, 0.0, 0.000000001, 0.5 and 2.0 GAS
GasAmounts == {-1 * GasScale, 0, 1, GasScale \div 2, ORDER_GAS}

BuyKwargs ==
    {NoKwargs, [model_id |-> TraderModelId], [gas_amount |-> GasScale],
     [model_id |-> "", gas_amount |-> 0]}
    \cup {[model_id |-> TraderModelId, gas_amount |-> g] : g \in GasAmounts}

TraderCalls ==
    {[fn |-> "PriceCheckTool.run", kwargs |-> k] : k \in PriceKwargs}
    \cup {[fn |-> "BuyComputeTool.run", kwargs |-> k] : k \in BuyKwargs}

\* what may be typed at the contract hash prompt
TypedHashes == {GoodHash, BadHash, EndOfInput}

\* the node's answers to a price read: a price below the threshold, a price
\* at the threshold, an empty stack, a failed request
ReadAnswers == {Stack(<<PRICE_THRESHOLD - 1>>), Stack(<<PRICE_THRESHOLD>>), Stack(<<>>), RpcError}

\* the node's answers to a transfer: the transaction, a failed request
InvokeAnswers == {Tx("0xtx"), RpcError}

PrivateKey == [wif |-> "L1aW4aubDFB7yfras2S1mN3bqg9nwySY8nkoLmJebSLD5BWv3ENZ"]

TraderConfigs ==
    {TraderTools(n, h, k) : n \in BOOLEAN, h \in {None, EmptyHash, GoodHash, BadHash},
                            k \in {None, PrivateKey}}

\* the call ends with the outcome: a returned value or a raised exception
TraderReturns(outcome) ==
    /\ ret' = IF Raised(outcome)
              THEN [fn |-> call.fn, raised |-> outcome.raised]
              ELSE [fn |-> call.fn, value |-> outcome.value]
    /\ tools' = outcome.self
    /\ chain' = outcome.log
    /\ shared' = {}
    /\ UNCHANGED <<metrics_cache, call, writes, task, bridge, lifecycle>>

TraderInvoke(c) ==
    /\ Len(chain) < MaxChainCalls
    /\ Invoke(c)

PriceCheckRun ==
    /\ Pending("PriceCheckTool.run")
    /\ \E typed \in TypedHashes, answer \in ReadAnswers :
          TraderReturns(PriceCheckTool_run(tools, chain, call.kwargs, typed, answer))

BuyComputeRun ==
    /\ Pending("BuyComputeTool.run")
    /\ \E typed \in TypedHashes, answer \in InvokeAnswers :
          TraderReturns(BuyComputeTool_run(tools, chain, call.kwargs, typed, answer))

TraderInit ==
    /\ metrics_cache = EmptyCache
    /\ writes = <<>>
    /\ shared = {}
    /\ task = NoTask
    /\ bridge = NeoBridgeTool
    /\ tools \in TraderConfigs
    /\ chain = <<>>
    /\ lifecycle = NotStarted
    /\ call = NoCall
    /\ ret = NoRet

TraderNext ==
    \/ \E c \in TraderCalls : TraderInvoke(c)
    \/ PriceCheckRun
    \/ BuyComputeRun

SpecTrader == TraderInit /\ [][TraderNext]_vars

------------------------------------------------------------------------------
(* run_agent run one statement at a time.  The hooks on_start and on_stop  *)
(* belong to the agent passed in; each may return or raise.                *)

AgentObjects ==
    {[name |-> n, neo_wallet_address |-> w] :
        n \in {"ChattenTrader", "ChattenTrader-2"}, w \in {"", "NAddr"}}
    \cup {[name |-> "ChattenTrader"], [neo_wallet_address |-> "NAddr"]}

AgentConfigs ==
    {[neo |-> [rpc_url |-> u]] : u \in {TestnetUrl, MainnetUrl}}
    \cup {[neo |-> [network_magic |-> "894710606"]], [spoon |-> [agent_name |-> "ChattenTrader"]]}

\* how an awaited hook may end: it returns, or raises an Exception, a
\* KeyboardInterrupt, or another BaseException
HookOutcomes == {"returns", "RuntimeError", "KeyboardInterrupt", "CancelledError"}

At_run_agent(pc) == lifecycle.pc = pc

\* run_agent moves on; nothing outside its locals changes
Step(next) ==
    /\ lifecycle' = next
    /\ UNCHANGED <<metrics_cache, call, ret, writes, shared, task, bridge, tools, chain>>

EnterRunAgent(agent, config) ==
    /\ At_run_agent("not started")
    /\ Step(RunAgentState("banner", agent, config, <<>>, <<>>, "none"))

PrintBanner ==
    /\ At_run_agent("banner")
    /\ LET banner == Banner(lifecycle.agent, lifecycle.config) IN
       IF "raised" \in DOMAIN banner
       THEN Step([lifecycle EXCEPT !.pc = "raised", !.exception = banner.raised])
       ELSE Step([lifecycle EXCEPT !.pc = "try", !.printed = banner.printed])

\* the finally clause entered only when no exception is in flight
AwaitOnStopUnlessRaised ==
    /\ At_run_agent("finally")
    /\ IF lifecycle.exception # "none"
       THEN Step([lifecycle EXCEPT !.pc = "raised"])
       ELSE \E outcome \in HookOutcomes :
               Step([lifecycle EXCEPT
                       !.hooks = Append(@, [hook |-> "on_stop", outcome |-> outcome]),
                       !.pc = IF outcome = "returns" THEN "returned" ELSE "raised",
                       !.exception = IF outcome = "returns" THEN "none" ELSE outcome])

\* try: await agent.on_start()
AwaitOnStart ==
    /\ At_run_agent("try")
    /\ \E outcome \in HookOutcomes :
          Step([lifecycle EXCEPT
                  !.hooks = Append(@, [hook |-> "on_start", outcome |-> outcome]),
                  !.pc = IF outcome = "returns" THEN "ready"
                         ELSE IF outcome = "KeyboardInterrupt" THEN "except"
                         ELSE "finally",
                  !.exception = IF outcome = "returns" THEN "none" ELSE outcome])

\* the rest of the try body: the agent is announced as ready
AnnounceReady ==
    /\ At_run_agent("ready")
    /\ Step([lifecycle EXCEPT !.pc = "finally"])

\* except KeyboardInterrupt: the shutdown line is printed, the exception
\* is handled
ExceptKeyboardInterrupt ==
    /\ At_run_agent("except")
    /\ Step([lifecycle EXCEPT !.pc = "finally", !.exception = "none"])

\* finally: await agent.on_stop(); an exception of on_stop replaces the one
\* in flight, else the one in flight goes on to the caller
AwaitOnStop ==
    /\ At_run_agent("finally")
    /\ \E outcome \in HookOutcomes :
          Step([lifecycle EXCEPT
                  !.hooks = Append(@, [hook |-> "on_stop", outcome |-> outcome]),
                  !.pc = IF outcome = "returns" /\ lifecycle.exception = "none"
                         THEN "returned" ELSE "raised",
                  !.exception = IF outcome = "returns" THEN @ ELSE outcome])

AgentNext ==
    \/ \E agent \in AgentObjects, config \in AgentConfigs : EnterRunAgent(agent, config)
    \/ PrintBanner
    \/ AwaitOnStart
    \/ AnnounceReady
    \/ ExceptKeyboardInterrupt
    \/ AwaitOnStop

SpecAgent == Init /\ [][AgentNext]_vars

------------------------------------------------------------------------------
(* Properties of the scoring functions *)

Returned(fn) == ret # NoRet /\ ret.fn = fn

\* C1: the composite of every result is (latency_frac*0.25 + throughput_frac*0.25
\* + quality_frac*0.25 + reliability_frac*0.25) * 100, i.e. 25 times the sum of
\* the four fractions; each component field is its fraction * 25 and lies in
\* [0, 25]; the composite is the sum of the four component fields and lies in
\* [0, 100].
C1_CompositeIsSumOfComponents ==
    Returned("calculate_q_score") =>
        LET r == ret.value
            lf == _calculate_latency_score(call.metrics)
            tf == _calculate_throughput_score(call.metrics)
            qf == _calculate_quality_score(call.metrics)
            rf == _calculate_reliability_score(call.metrics)
        IN /\ r.q_score = 25 * (lf + tf + qf + rf)
           /\ r.latency_score = lf * 25
           /\ r.throughput_score = tf * 25
           /\ r.quality_score = qf * 25
           /\ r.reliability_score = rf * 25
           /\ \A c \in {r.latency_score, r.throughput_score,
                        r.quality_score, r.reliability_score} :
                  0 <= c /\ c <= 25 * FracScale
           /\ r.q_score = r.latency_score + r.throughput_score
                          + r.quality_score + r.reliability_score
           /\ 0 <= r.q_score /\ r.q_score <= 100 * FracScale

\* the sample fixture scores 20 + 25 + 22.75 + 23.75 = 91.5
C1_Witness ==
    /\ Returned("calculate_q_score")
    /\ call.metrics = SampleMetrics
    /\ ret.value.q_score = 91500000
    /\ ret.value.reliability_score = 23750000

\* C2: mint_eligible is true exactly when the composite is at least 50:
\* a composite of exactly 50 is eligible, one just below 50 is not, and
\* composites on either side of 60 and of 80 are eligible all the same.
C2_MintGate ==
    Returned("calculate_q_score") =>
        (ret.value.mint_eligible <=> ret.value.q_score >= 50 * FracScale)

\* latency 1.0, throughput 0.6, quality 0.4, reliability 0.0: exactly 50
C2_Witness ==
    /\ Returned("calculate_q_score")
    /\ ret.value.q_score = 50 * FracScale
    /\ ret.value.mint_eligible

\* the latency table of the spec, written over the sampled value
LatencyTable(L) ==
    CASE L <= 0 -> 0
      [] 0 < L /\ L < 50 * Scale -> Tenths(10)
      [] 50 * Scale <= L /\ L < 100 * Scale -> Tenths(8)
      [] 100 * Scale <= L /\ L < 200 * Scale -> Tenths(6)
      [] 200 * Scale <= L /\ L < 500 * Scale -> Tenths(4)
      [] 500 * Scale <= L /\ L < 1000 * Scale -> Tenths(2)
      [] L >= 1000 * Scale -> 0

LatencyBoundaries(L, value) ==
    /\ value = LatencyTable(L)
    /\ L = 49999 => value = Tenths(10)
    /\ L = 50000 => value = Tenths(8)
    /\ L = 99999 => value = Tenths(8)
    /\ L = 100000 => value = Tenths(6)

\* C3 (as claimed): the latency fraction follows the table (<= 0 -> 0.0,
\* < 50 -> 1.0, < 100 -> 0.8, < 200 -> 0.6, < 500 -> 0.4, < 1000 -> 0.2,
\* >= 1000 -> 0.0) and, for all latencies, a larger latency never scores
\* higher than a smaller one.
C3_MonotoneForAllLatencies ==
    Returned("_calculate_latency_score") =>
        LET L == call.metrics.avg_latency_ms IN
        /\ LatencyBoundaries(L, ret.value)
        /\ \A c \in LatencyCalls :
              c.metrics.avg_latency_ms >= L =>
                  _calculate_latency_score(c.metrics) <= ret.value

\* C3 (amended): the latency fraction follows the table, with 49.999 -> 1.0,
\* 50 -> 0.8, 99.999 -> 0.8 and 100 -> 0.6, and among the positive latencies
\* a larger latency never scores higher than a smaller one (a latency <= 0
\* scores 0.0, below the 1.0 of the latencies just above 0).
C3_LatencyTableMonotone ==
    Returned("_calculate_latency_score") =>
        LET L == call.metrics.avg_latency_ms IN
        /\ LatencyBoundaries(L, ret.value)
        /\ L > 0 =>
              \A c \in LatencyCalls :
                  c.metrics.avg_latency_ms >= L =>
                      _calculate_latency_score(c.metrics) <= ret.value

C3_Witness ==
    /\ Returned("_calculate_latency_score")
    /\ call.metrics.avg_latency_ms = 50 * Scale
    /\ ret.value = Tenths(8)

\* the throughput table of the spec
ThroughputTable(T) ==
    CASE T >= 1000 * Scale -> Tenths(10)
      [] 500 * Scale <= T /\ T < 1000 * Scale -> Tenths(8)
      [] 200 * Scale <= T /\ T < 500 * Scale -> Tenths(6)
      [] 100 * Scale <= T /\ T < 200 * Scale -> Tenths(4)
      [] 50 * Scale <= T /\ T < 100 * Scale -> Tenths(2)
      [] T < 50 * Scale -> 0

\* C4: the throughput fraction follows the table (>= 1000 -> 1.0, >= 500 ->
\* 0.8, >= 200 -> 0.6, >= 100 -> 0.4, >= 50 -> 0.2, < 50 -> 0.0, each lower
\* bound inclusive) and never decreases as tokens per second grow.
C4_ThroughputTableMonotone ==
    Returned("_calculate_throughput_score") =>
        LET T == call.metrics.tokens_per_second IN
        /\ ret.value = ThroughputTable(T)
        /\ \A c \in ThroughputCalls :
              c.metrics.tokens_per_second >= T =>
                  _calculate_throughput_score(c.metrics) >= ret.value

C4_Witness ==
    /\ Returned("_calculate_throughput_score")
    /\ call.metrics.tokens_per_second = 500 * Scale
    /\ ret.value = Tenths(8)

\* the sub-scores of the spec: uptime in thousandths of a percent, error
\* rate in thousandths
UptimeSubscore(u) ==
    CASE u >= 99900 -> Tenths(10)
      [] 99000 <= u /\ u < 99900 -> Tenths(9)
      [] 95000 <= u /\ u < 99000 -> Tenths(5)
      [] 90000 <= u /\ u < 95000 -> Tenths(2)
      [] u < 90000 -> 0

ErrorSubscore(e) ==
    CASE e <= 0 -> Tenths(10)
      [] 0 < e /\ e <= 10 -> Tenths(9)
      [] 10 < e /\ e <= 50 -> Tenths(5)
      [] 50 < e /\ e < 100 -> Tenths(2)
      [] e >= 100 -> 0

\* C5: the reliability fraction is uptime_subscore * 0.5 + error_subscore * 0.5
\* with the sub-scores of the spec; it is at least 0.9 for uptime 99.9 with
\* error rate 0.001 and below 0.5 for uptime 90 with error rate 0.10.
C5_ReliabilityFormula ==
    Returned("_calculate_reliability_score") =>
        LET u == call.metrics.uptime_percentage
            e == call.metrics.error_rate
        IN /\ 2 * ret.value = UptimeSubscore(u) + ErrorSubscore(e)
           /\ (u = 99900 /\ e = 1) => ret.value >= Tenths(9)
           /\ (u = 90000 /\ e = 100) => ret.value < Tenths(5)

\* uptime 90 scores 0.2 and error rate 0.10 scores 0.0: 0.1 together
C5_Witness ==
    /\ Returned("_calculate_reliability_score")
    /\ call.metrics.uptime_percentage = 90 * Scale
    /\ call.metrics.error_rate = 100
    /\ ret.value = Tenths(1)

Clamp(x, lo, hi) == IF x < lo THEN lo ELSE IF x > hi THEN hi ELSE x

\* C6: the quality fraction is clamp(accuracy, 0, 1) * 0.6 +
\* clamp(benchmark / 100, 0, 1) * 0.4 for in- and out-of-range inputs alike,
\* and so lies in [0, 1].  (In millionths: accuracy in thousandths * 600, and
\* benchmark in thousandths clamped to [0, 100000] * 4.)
C6_QualityClamped ==
    Returned("_calculate_quality_score") =>
        /\ ret.value = Clamp(call.metrics.accuracy_score, 0, 1000) * 600
                       + Clamp(call.metrics.benchmark_score, 0, 100000) * 4
        /\ 0 <= ret.value /\ ret.value <= FracScale

\* accuracy 1.5 and benchmark 150 score 1.0
C6_Witness ==
    /\ Returned("_calculate_quality_score")
    /\ call.metrics.accuracy_score = 1500
    /\ call.metrics.benchmark_score = 150 * Scale
    /\ ret.value = FracScale

\* the advisories the spec asks for, in the fixed order
ExpectedAdvisories(l, t, q, r) ==
    LET all == <<[frac |-> l, text |-> LatencyAdvice],
                 [frac |-> t, text |-> ThroughputAdvice],
                 [frac |-> q, text |-> QualityAdvice],
                 [frac |-> r, text |-> ReliabilityAdvice]>>
        low == SelectSeq(all, LAMBDA a : 2 * a.frac < FracScale)
    IN [i \in 1..Len(low) |-> low[i].text]

ExpectedSummary(composite) ==
    IF composite >= 80 * FracScale THEN ExcellentSummary
    ELSE IF composite >= 50 * FracScale THEN GoodSummary
    ELSE BelowSummary

\* C7: the recommendation list is one advisory for each component whose
\* fraction is below 0.5, in the order latency, throughput, quality,
\* reliability, followed by exactly one summary line as the last element:
\* premium-eligible for a composite >= 80, mint-eligible for 50 <= composite
\* < 80, below-threshold otherwise.
C7_RecommendationList ==
    Returned("_generate_recommendations") =>
        ret.value = ExpectedAdvisories(call.latency, call.throughput,
                                       call.quality, call.reliability)
                    \o <<ExpectedSummary(call.q_score)>>

\* quality exactly 0.5 gets no advisory, latency just below 0.5 gets one
C7_Witness ==
    /\ Returned("_generate_recommendations")
    /\ call.quality = Tenths(5)
    /\ call.latency = Tenths(5) - 1
    /\ call.throughput = Tenths(10)
    /\ call.reliability = 0
    /\ call.q_score = 80 * FracScale - 1
    /\ ret.value = <<LatencyAdvice, ReliabilityAdvice, GoodSummary>>

------------------------------------------------------------------------------
(* Properties of compare_models *)

\* C8: compare_models returns one result per entry of model_ids, duplicates
\* included (the results' identifiers are a rearrangement of the input),
\* sorted by composite descending, and results of equal composite stand in
\* the order in which their identifiers stood in the input.
C8_CompareSortedStable ==
    Returned("compare_models") =>
        LET ids == call.model_ids
            rs == ret.value
            n == Len(ids)
        IN /\ Len(rs) = n
           /\ \A i \in 1..n : \A j \in 1..n :
                  i < j => rs[i].q_score >= rs[j].q_score
           /\ \E p \in Permutations(1..n) :
                  /\ \A i \in 1..n : rs[i].model_id = ids[p[i]]
                  /\ \A i \in 1..n : \A j \in 1..n :
                        (i < j /\ rs[i].q_score = rs[j].q_score) => p[i] < p[j]

\* model-a is cached and scores above the uncached model-b, asked for twice
C8_Witness ==
    /\ Returned("compare_models")
    /\ call.model_ids = <<"model-b", "model-a", "model-b">>
    /\ Len(ret.value) = 3
    /\ ret.value[1].model_id = "model-a"
    /\ ret.value[2].model_id = "model-b"
    /\ ret.value[3].model_id = "model-b"
    /\ ret.value[1].q_score > ret.value[2].q_score

------------------------------------------------------------------------------
(* Properties of the quotes.  Products of two amounts exceed 32 bits, so    *)
(* they are compared as little-endian sequences of base-10000 digits.      *)

LimbBase == 100 * 100

Limbs(n) == <<n % LimbBase, (n \div LimbBase) % LimbBase, n \div (LimbBase * LimbBase)>>

RECURSIVE Carry(_, _, _)
Carry(raw, i, carry) ==
    IF i > Len(raw) THEN <<carry>>
    ELSE LET v == raw[i] + carry
         IN <<v % LimbBase>> \o Carry(raw, i + 1, v \div LimbBase)

\* a * b for 0 <= a, b < 2^31
BigMul(a, b) ==
    LET x == Limbs(a)
        y == Limbs(b)
        raw == <<x[1] * y[1],
                 x[1] * y[2] + x[2] * y[1],
                 x[1] * y[3] + x[2] * y[2] + x[3] * y[1],
                 x[2] * y[3] + x[3] * y[2],
                 x[3] * y[3]>>
    IN Carry(raw, 1, 0)

RECURSIVE BigLeqFrom(_, _, _)
BigLeqFrom(a, b, i) ==
    IF i = 0 THEN TRUE
    ELSE IF a[i] # b[i] THEN a[i] < b[i]
    ELSE BigLeqFrom(a, b, i - 1)

BigLeq(a, b) == BigLeqFrom(a, b, Len(a))
BigLt(a, b) == ~BigLeq(b, a)

\* q is the floor of n / d, for d > 0
IsFloorDiv(q, n, d) == q * d <= n /\ n < (q + 1) * d

\* C9: a quote uses floor arithmetic on smallest units: fee is the floor of
\* baseAmountIn * 3 / 1000, net is baseAmountIn - fee, tokenAmountOut is the
\* floor of net * 10^8 / price, and ONE_TOKEN is 10^8.  For baseAmountIn =
\* 100,000,000 and price = 50,000,000: fee 300,000, net 99,700,000 and
\* tokenAmountOut 199,400,000, strictly between 1.9 and 2.0 whole tokens; for
\* an amount of 10,000,000 the fee is 30,000.
C9_QuoteBuyFloorArithmetic ==
    (Returned("quoteBuy") /\ call.price > 0) =>
        LET a == call.baseAmountIn
            q == ret.value
        IN /\ q.ok
           /\ IsFloorDiv(q.fee, a * 3, 1000)
           /\ q.net = a - q.fee
           /\ BigLeq(BigMul(q.tokenAmountOut, call.price), BigMul(q.net, ONE_TOKEN))
           /\ BigLt(BigMul(q.net, ONE_TOKEN), BigMul(q.tokenAmountOut + 1, call.price))
           /\ ONE_TOKEN = 10 ^ 8
           /\ (a = 100000000 /\ call.price = 50000000) =>
                  /\ q.fee = 300000
                  /\ q.net = 99700000
                  /\ q.tokenAmountOut = 199400000
                  /\ q.tokenAmountOut > (ONE_TOKEN * 19) \div 10
                  /\ q.tokenAmountOut < ONE_TOKEN * 2
           /\ a = 10000000 => q.fee = 30000

C9_Witness ==
    /\ Returned("quoteBuy")
    /\ call.baseAmountIn = 100000000
    /\ call.price = 50000000
    /\ ret.value.ok
    /\ ret.value.tokenAmountOut = 199400000

\* C10: a quote at a zero or negative price fails with an explicit error: it
\* carries no token amount, and the price is not replaced by another one.
C10_NonPositivePriceFails ==
    (Returned("quoteBuy") /\ call.price <= 0) =>
        /\ ~ret.value.ok
        /\ "error" \in DOMAIN ret.value
        /\ "tokenAmountOut" \notin DOMAIN ret.value

C10_Witness ==
    /\ Returned("quoteBuy")
    /\ call.baseAmountIn = 100000000
    /\ call.price = 0
    /\ ~ret.value.ok

------------------------------------------------------------------------------
(* C11: quoteSell mirrors quoteBuy on the token leg: the fee is            *)
(* tokenAmountIn * 3 div 1000, the net amount is tokenAmountIn - fee, and  *)
(* the output in base-asset smallest units is floor(net * price / 10^8);   *)
(* fee and net are the ones quoteBuy takes from the same amount.           *)
C11_QuoteSellMirrorsBuy ==
    (Returned("quoteSell") /\ call.price > 0) =>
        LET a == call.tokenAmountIn
            r == ret.value
        IN  /\ r.ok
            /\ IsFloorDiv(r.fee, a * 3, 1000)
            /\ r.net = a - r.fee
            /\ r.fee = SwapFee(a)
            /\ r.net = NetAmount(a)
            /\ r.baseAmountOut >= 0
            /\ BigLeq(BigMul(r.baseAmountOut, ONE_TOKEN), BigMul(r.net, call.price))
            /\ BigLt(BigMul(r.net, call.price), BigMul(r.baseAmountOut + 1, ONE_TOKEN))

\* 2.0 tokens sold at 1.23456789 a token: fee 600000 smallest token units
C11_Witness ==
    /\ Returned("quoteSell")
    /\ call.tokenAmountIn = 200000000
    /\ call.price = 123456789
    /\ ret.value.fee = 600000
    /\ ret.value.net = 199400000
    /\ ret.value.baseAmountOut = 246172837

------------------------------------------------------------------------------
(* Properties of the metrics cache *)

\* a step in which the pending call of fn returns
Returning(fn) == Pending(fn) /\ ret' # NoRet

AllZeroSnapshot ==
    [avg_latency_ms |-> 0, tokens_per_second |-> 0, accuracy_score |-> 0,
     benchmark_score |-> 0, uptime_percentage |-> 0, error_rate |-> 0]

\* C12: fetching metrics never fails: a pending calculate_q_score with
\* metrics omitted can always return, and what it returns is the ScoreResult
\* of the cached snapshot when the model id is cached and of the all-zero
\* default snapshot when it is not.
C12_FetchNeverFails ==
    /\ [](Pending("calculate_q_score") => ENABLED CalculateQScore)
    /\ [][(Returning("calculate_q_score") /\ call.metrics = None) =>
            LET id == call.model_id
                snapshot == IF id \in DOMAIN metrics_cache
                            THEN metrics_cache[id]
                            ELSE AllZeroSnapshot
            IN  /\ ret'.value.metrics = snapshot
                /\ ret'.value.model_id = id
                /\ ret'.value =
                     calculate_q_score(EmptyCache, id, snapshot, call.category)
         ]_vars

\* model-a scored from the default snapshot while model-b is cached
C12_Witness ==
    /\ Returned("calculate_q_score")
    /\ call.metrics = None
    /\ call.model_id = "model-a"
    /\ DOMAIN metrics_cache = {"model-b"}
    /\ ret.value.metrics = AllZeroSnapshot
    /\ ret.value.model_id = "model-a"

\* the snapshot of the most recent write for model_id in the history log,
\* the default snapshot when there is none
RECURSIVE LastWrite(_, _)
LastWrite(log, model_id) ==
    IF log = <<>> THEN AllZeroSnapshot
    ELSE IF log[Len(log)].model_id = model_id THEN log[Len(log)].snapshot
    ELSE LastWrite(SubSeq(log, 1, Len(log) - 1), model_id)

\* C13: the cache is last-write-wins for each model id: calculate_q_score
\* with metrics omitted scores the snapshot of the most recent write for its
\* model id, whatever was written before it and whatever was written for
\* other ids, and a write for one id leaves what is fetched for every other
\* id as it was.
C13_LastWriteWins ==
    /\ [][(Returning("calculate_q_score") /\ call.metrics = None) =>
            LET snapshot == LastWrite(writes, call.model_id)
            IN  /\ ret'.value.metrics = snapshot
                /\ ret'.value =
                     calculate_q_score(EmptyCache, call.model_id, snapshot,
                                       call.category)
         ]_vars
    /\ [][writes' # writes =>
            \A m \in ModelIds \ {writes'[Len(writes')].model_id} :
                /\ (m \in DOMAIN metrics_cache') = (m \in DOMAIN metrics_cache)
                /\ _fetch_metrics(metrics_cache', m) = _fetch_metrics(metrics_cache, m)
         ]_vars

\* model-a written twice: it scores its second snapshot
C13_Witness ==
    /\ Returned("calculate_q_score")
    /\ call.metrics = None
    /\ call.model_id = "model-a"
    /\ writes = <<[model_id |-> "model-a", snapshot |-> SampleMetrics],
                  [model_id |-> "model-a", snapshot |-> PoorMetrics]>>
    /\ ret.value.metrics = PoorMetrics
    /\ ret.value.q_score < 50 * FracScale

------------------------------------------------------------------------------
(* Scoring interleaved with cache writes *)

\* the snapshots a fetch for model_id can have returned: the ones written for
\* it so far, and the default one of an id not yet written
FullyWritten(model_id) ==
    {AllZeroSnapshot}
    \cup {writes[i].snapshot : i \in {j \in 1..Len(writes) : writes[j].model_id = model_id}}

\* result is the score of one fully-written snapshot of its model
FromOneSnapshot(result) ==
    /\ result.metrics \in FullyWritten(result.model_id)
    /\ result = calculate_q_score(EmptyCache, result.model_id, result.metrics,
                                  result.category)

\* C14: with cache writes between the statements of calculate_q_score and
\* compare_models, every component computed so far, every result built and
\* every result returned is the score of one fully-written snapshot of its
\* model, a previous or the latest one, never of fields of two snapshots.
C14_ScoresFromOneSnapshot ==
    /\ task # NoTask =>
        /\ task.pc \in {"latency", "throughput", "quality", "reliability", "build"} =>
              task.metrics \in FullyWritten(Head(task.model_ids))
        /\ task.pc \in {"throughput", "quality", "reliability", "build"} =>
              task.latency_score = _calculate_latency_score(task.metrics)
        /\ task.pc \in {"quality", "reliability", "build"} =>
              task.throughput_score = _calculate_throughput_score(task.metrics)
        /\ task.pc \in {"reliability", "build"} =>
              task.quality_score = _calculate_quality_score(task.metrics)
        /\ task.pc = "build" =>
              task.reliability_score = _calculate_reliability_score(task.metrics)
        /\ \A i \in 1..Len(task.results) : FromOneSnapshot(task.results[i])
    /\ Returned("calculate_q_score") => FromOneSnapshot(ret.value)
    /\ Returned("compare_models") =>
          \A i \in 1..Len(ret.value) : FromOneSnapshot(ret.value[i])

\* model-a is overwritten after its snapshot was fetched: the call goes on
\* with the snapshot it fetched
C14_Witness ==
    /\ task # NoTask
    /\ task.pc = "reliability"
    /\ Head(task.model_ids) = "model-a"
    /\ task.metrics = SampleMetrics
    /\ metrics_cache["model-a"] = PoorMetrics
    /\ task.throughput_score = _calculate_throughput_score(SampleMetrics)
    /\ task.throughput_score # _calculate_throughput_score(PoorMetrics)

------------------------------------------------------------------------------
(* Market analysis *)

EmptyMarketSummary ==
    [total_models |-> 0,
     avg_q_score |-> 0,
     top_performers |-> <<>>,
     market_liquidity |-> 0,
     price_trend |-> "stable"]

\* C15: with no model known (nothing in the cache), get_market_analysis
\* returns a normal summary, not an error: total model count 0, average
\* composite 0.0, liquidity 0, no top performers and trend "stable"; run with
\* action "market" reports the same count, average and trend.
C15_EmptyMarketSummary ==
    /\ [](Pending("get_market_analysis") => ENABLED GetMarketAnalysis)
    /\ [][(Returning("get_market_analysis") /\ DOMAIN metrics_cache = {}) =>
            ret'.value = EmptyMarketSummary]_vars
    /\ [][(/\ Returning("run")
           /\ Get(call.kwargs, "action", "calculate") = "market"
           /\ DOMAIN metrics_cache = {}) =>
            ret'.value = [total_models |-> 0, avg_q_score |-> 0,
                          trend |-> "stable"]]_vars

C15_Witness ==
    /\ Returned("get_market_analysis")
    /\ writes = <<>>
    /\ DOMAIN metrics_cache = {}
    /\ ret.value.total_models = 0
    /\ ret.value.price_trend = "stable"

RECURSIVE SumOfComposites(_, _)
SumOfComposites(cache, ids) ==
    IF ids = {} THEN 0
    ELSE LET m == CHOOSE x \in ids : TRUE
         IN calculate_q_score(cache, m, None, "llm").q_score
            + SumOfComposites(cache, ids \ {m})

\* C16: get_market_analysis aggregates over the known models, the ones in
\* the cache: the total model count it returns is their number and the
\* average composite is the mean of their composites.
C16_MarketSummaryAggregates ==
    [][Returning("get_market_analysis") =>
        LET known == DOMAIN metrics_cache
            n == Cardinality(known)
        IN  /\ ret'.value.total_models = n
            /\ ret'.value.avg_q_score * n = SumOfComposites(metrics_cache, known)
      ]_vars

------------------------------------------------------------------------------
(* The run entry points *)

ToolRuns == {"run", "NeoBridgeTool.run", "TokenTransferTool.run"}

\* the action a run call selects, and the actions each tool names
SelectedAction ==
    Get(call.kwargs, "action",
        IF call.fn = "run" THEN "calculate"
        ELSE IF call.fn = "TokenTransferTool.run" THEN "transfer"
        ELSE "")

NamedActions ==
    IF call.fn = "run" THEN {"calculate", "compare", "market"}
    ELSE IF call.fn = "TokenTransferTool.run" THEN {"transfer", "approve"}
    ELSE {"connect", "invoke", "query"}

\* keys of the results of scoring and of chain operations
OperationKeys ==
    {"q_score", "model_id", "mint_eligible", "recommendations", "rankings",
     "total_models", "avg_q_score", "trend", "tx_hash", "success", "stack",
     "gas_consumed", "balance"}

\* C17: an unknown action selector given to run of the analyzer, the bridge
\* or the transfer tool comes back as a returned result with an "error" key:
\* the pending call has such a result to return, the result it returns
\* carries no score and no transaction, and nothing but the returned value
\* changes.
C17_UnknownActionIsAnError ==
    /\ []((/\ call.fn \in ToolRuns
           /\ Pending(call.fn)
           /\ SelectedAction \notin NamedActions) =>
            LET result == IF call.fn = "run"
                          THEN run(metrics_cache, call.kwargs)
                          ELSE IF call.fn = "NeoBridgeTool.run"
                          THEN NeoBridgeTool_run(call.kwargs)
                          ELSE TokenTransferTool_run(call.kwargs)
            IN "error" \in DOMAIN result)
    /\ [][(/\ call.fn \in ToolRuns
           /\ Returning(call.fn)
           /\ SelectedAction \notin NamedActions) =>
            /\ "error" \in DOMAIN ret'.value
            /\ DOMAIN ret'.value \cap OperationKeys = {}
            /\ UNCHANGED <<metrics_cache, call, writes, shared, task, bridge, tools, chain, lifecycle>>
         ]_vars

\* the analyzer asked for "bogus" while model-a is cached
C17_Witness ==
    /\ Returned("run")
    /\ "action" \in DOMAIN call.kwargs
    /\ call.kwargs.action = "bogus"
    /\ "model-a" \in DOMAIN metrics_cache
    /\ ret.value = [error |-> "Unknown action"]

------------------------------------------------------------------------------
(* The weights *)

\* C18: each of the four component weights is 0.25 (25 hundredths) and
\* their sum is exactly 1.0, so that a model whose four fractions are all 1.0
\* has the composite 100 and no composite exceeds 100.
C18_WeightsSumToOne ==
    /\ LATENCY_WEIGHT = 25
    /\ THROUGHPUT_WEIGHT = 25
    /\ QUALITY_WEIGHT = 25
    /\ RELIABILITY_WEIGHT = 25
    /\ LATENCY_WEIGHT + THROUGHPUT_WEIGHT + QUALITY_WEIGHT + RELIABILITY_WEIGHT = 100
    /\ Returned("calculate_q_score") =>
          LET r == ret.value
              all_full == /\ _calculate_latency_score(r.metrics) = FracScale
                          /\ _calculate_throughput_score(r.metrics) = FracScale
                          /\ _calculate_quality_score(r.metrics) = FracScale
                          /\ _calculate_reliability_score(r.metrics) = FracScale
          IN /\ r.q_score <= 100 * FracScale
             /\ all_full => r.q_score = 100 * FracScale

\* a snapshot whose four fractions are all 1.0, scored 100
C18_Witness ==
    /\ Returned("calculate_q_score")
    /\ _calculate_latency_score(ret.value.metrics) = FracScale
    /\ _calculate_throughput_score(ret.value.metrics) = FracScale
    /\ _calculate_quality_score(ret.value.metrics) = FracScale
    /\ _calculate_reliability_score(ret.value.metrics) = FracScale
    /\ ret.value.q_score = 100 * FracScale

------------------------------------------------------------------------------
(* Scoring and the cache *)

ScoringCalls == {"calculate_q_score", "compare_models", "get_market_analysis"}

\* C19: calculate_q_score, compare_models and get_market_analysis only read
\* the cache: the step in which one of them returns adds, removes and
\* replaces no cache entry (a model that was uncached stays uncached), makes
\* no cache write, and leaves the snapshot it scored, cached or handed in by
\* the caller, as it was.
C19_ScoringOnlyReadsCache ==
    [][(call.fn \in ScoringCalls /\ Returning(call.fn)) =>
        /\ DOMAIN metrics_cache' = DOMAIN metrics_cache
        /\ \A m \in DOMAIN metrics_cache : metrics_cache'[m] = metrics_cache[m]
        /\ writes' = writes
        /\ call' = call
        /\ call.fn = "calculate_q_score" =>
              ret'.value.metrics =
                  IF call.metrics = None
                  THEN _fetch_metrics(metrics_cache', call.model_id)
                  ELSE call.metrics
      ]_vars

\* model-a and model-b compared while only model-b is cached
C19_Witness ==
    /\ Returned("compare_models")
    /\ call.model_ids = <<"model-a", "model-b">>
    /\ DOMAIN metrics_cache = {"model-b"}
    /\ writes = <<[model_id |-> "model-b", snapshot |-> SampleMetrics]>>
    /\ Len(ret.value) = 2
    /\ ret.value[2].metrics = AllZeroSnapshot

------------------------------------------------------------------------------
(* Results and the snapshots they hold *)

\* C20: a result is immutable once calculate_q_score has returned it: for
\* as long as the caller holds it, no cache write and no update of a cached
\* snapshot changes its composite, its component scores, its
\* recommendations, its mint flag or its originating snapshot.
C20_ResultImmutable ==
    [][(Returned("calculate_q_score") /\ call' = call /\ ret' # NoRet) =>
        ret' = ret]_vars

------------------------------------------------------------------------------
(* What a score depends on *)

\* C23: the model category is metadata only: scoring the same snapshot under
\* any other category returns the same composite, component scores,
\* recommendations and mint eligibility; the two results differ in the
\* category field alone.
C23_CategoryIsMetadataOnly ==
    Returned("calculate_q_score") =>
        \A other \in Categories :
            calculate_q_score(metrics_cache, call.model_id, call.metrics, other)
                = [ret.value EXCEPT !.category = other]

\* a snapshot scoring above zero, scored as an embedding model
C23_Witness ==
    /\ Returned("calculate_q_score")
    /\ call.metrics = SampleMetrics
    /\ call.category = "embedding"
    /\ ret.value.category = "embedding"
    /\ ret.value.q_score > 0
    /\ ret.value.reliability_score > 0

\* the snapshot with its average latency replaced
WithLatency(metrics, latency) == [metrics EXCEPT !.avg_latency_ms = latency]

\* C24: a non-positive average latency is invalid for the latency score
\* only: the latency fraction is 0.0, and the throughput, quality and
\* reliability fractions are those of the same snapshot under any other
\* latency; each helper's fraction depends on its own input fields alone.
C24_LatencyInvalidForLatencyOnly ==
    /\ (Returned("calculate_q_score") /\ call.metrics # None) =>
          /\ call.metrics.avg_latency_ms <= 0 => ret.value.latency_score = 0
          /\ \A L \in LatencySamples :
                LET other == calculate_q_score(metrics_cache, call.model_id,
                                 WithLatency(call.metrics, L), call.category)
                IN /\ other.throughput_score = ret.value.throughput_score
                   /\ other.quality_score = ret.value.quality_score
                   /\ other.reliability_score = ret.value.reliability_score
    /\ Returned("_calculate_latency_score") =>
          /\ call.metrics.avg_latency_ms <= 0 => ret.value = 0
          /\ ret.value = _calculate_latency_score(
                 WithLatency(DefaultMetrics, call.metrics.avg_latency_ms))
    /\ Returned("_calculate_throughput_score") =>
          ret.value = _calculate_throughput_score(
              [DefaultMetrics EXCEPT
                  !.tokens_per_second = call.metrics.tokens_per_second])
    /\ Returned("_calculate_quality_score") =>
          ret.value = _calculate_quality_score(
              [DefaultMetrics EXCEPT
                  !.accuracy_score = call.metrics.accuracy_score,
                  !.benchmark_score = call.metrics.benchmark_score])
    /\ Returned("_calculate_reliability_score") =>
          ret.value = _calculate_reliability_score(
              [DefaultMetrics EXCEPT
                  !.uptime_percentage = call.metrics.uptime_percentage,
                  !.error_rate = call.metrics.error_rate])

\* a snapshot of latency 0 whose other three scores are all above zero
C24_Witness ==
    /\ Returned("calculate_q_score")
    /\ call.metrics # None
    /\ call.metrics.avg_latency_ms <= 0
    /\ ret.value.latency_score = 0
    /\ ret.value.throughput_score > 0
    /\ ret.value.quality_score > 0
    /\ ret.value.reliability_score > 0

\* C27: scoring a model with no cached snapshot and no supplied metrics uses
\* the all-zero default snapshot and does not yield a zero composite: the
\* latency, throughput and quality fractions are 0.0 and the reliability
\* fraction is 0.5 (uptime 0 scores 0.0, error rate 0 scores 1.0), so the
\* composite is 12.5, the model is not mint-eligible, and the
\* recommendations are the latency, throughput and quality advisories
\* followed by the below-threshold line.
C27_DefaultSnapshotScore ==
    (/\ Returned("calculate_q_score")
     /\ call.metrics = None
     /\ call.model_id \notin DOMAIN metrics_cache) =>
        LET r == ret.value IN
        /\ r.metrics = AllZeroSnapshot
        /\ r.latency_score = 0
        /\ r.throughput_score = 0
        /\ r.quality_score = 0
        /\ r.reliability_score = 25 * Tenths(5)
        /\ _calculate_reliability_score(r.metrics) = Tenths(5)
        /\ r.q_score = (25 * FracScale) \div 2
        /\ r.q_score # 0
        /\ ~r.mint_eligible
        /\ r.recommendations =
              <<LatencyAdvice, ThroughputAdvice, QualityAdvice, BelowSummary>>

\* model-a scored from the empty cache, metrics omitted
C27_Witness ==
    /\ Returned("calculate_q_score")
    /\ call.model_id = "model-a"
    /\ call.metrics = None
    /\ metrics_cache = EmptyCache
    /\ ret.value.q_score = (25 * FracScale) \div 2

------------------------------------------------------------------------------
(* Advisories and summary of one result *)

Advisories == {LatencyAdvice, ThroughputAdvice, QualityAdvice, ReliabilityAdvice}

\* the advisories among the recommendations of a result
AdvisoriesOf(result) ==
    {i \in 1..Len(result.recommendations) : result.recommendations[i] \in Advisories}

\* the summary is the last recommendation
SummaryOf(result) == result.recommendations[Len(result.recommendations)]

\* C28: the advisories and the summary of a result are consistent: a result
\* carrying all four advisories is never mint-eligible, and a result whose
\* summary is the premium-eligible message (composite >= 80) carries at most
\* one advisory.
C28_AdvisoriesConsistentWithSummary ==
    Returned("calculate_q_score") =>
        LET r == ret.value IN
        /\ Cardinality(AdvisoriesOf(r)) = 4 => ~r.mint_eligible
        /\ SummaryOf(r) = ExcellentSummary <=> r.q_score >= EXCELLENT_THRESHOLD * FracScale
        /\ SummaryOf(r) = ExcellentSummary => Cardinality(AdvisoriesOf(r)) <= 1

\* a result with all four advisories
C28_Witness ==
    /\ Returned("calculate_q_score")
    /\ Cardinality(AdvisoriesOf(ret.value)) = 4
    /\ ret.value.q_score > 0
    /\ ~ret.value.mint_eligible

\* a premium-eligible result that carries one advisory
C28_WitnessPremium ==
    /\ Returned("calculate_q_score")
    /\ SummaryOf(ret.value) = ExcellentSummary
    /\ Cardinality(AdvisoriesOf(ret.value)) = 1

------------------------------------------------------------------------------
(* Rounding of the buy quote *)

\* C29: for every baseAmountIn >= 0 and price > 0 the floor-division quote
\* never over-delivers: 1000 * fee <= 3 * baseAmountIn (so an amount below
\* 334 pays a zero fee), fee <= baseAmountIn so that the net amount is
\* non-negative, and tokenAmountOut * price <= net * 10^8.
C29_QuoteNeverOverDelivers ==
    (Returned("quoteBuy") /\ call.baseAmountIn >= 0 /\ call.price > 0) =>
        LET a == call.baseAmountIn
            q == ret.value
        IN /\ 1000 * q.fee <= 3 * a
           /\ a < 334 => q.fee = 0
           /\ q.fee >= 0
           /\ q.fee <= a
           /\ q.net >= 0
           /\ q.tokenAmountOut >= 0
           /\ BigLeq(BigMul(q.tokenAmountOut, call.price), BigMul(q.net, 10 ^ 8))

\* 333 smallest units pay no fee and buy 33,300,000 token units at price 1000
C29_Witness ==
    /\ Returned("quoteBuy")
    /\ call.baseAmountIn = 333
    /\ call.price = 1000
    /\ ret.value.fee = 0
    /\ ret.value.net = 333
    /\ ret.value.tokenAmountOut = 33300000

------------------------------------------------------------------------------
(* The trader's tools *)

MissingModelId(kwargs) == Get(kwargs, "model_id", "") = ""

\* C21: BuyComputeTool.run rejects an invalid order before touching the
\* chain: a missing or empty model_id gives success False with an error
\* naming model_id, and this is checked first; a gas_amount <= 0 gives
\* success False with an error naming gas_amount; in both cases no account
\* is loaded, no facade is created and no transfer is invoked.
C21_InvalidOrderRejectedOffChain ==
    [][(/\ Returning("BuyComputeTool.run")
        /\ \/ MissingModelId(call.kwargs)
           \/ Get(call.kwargs, "gas_amount", 0) <= 0) =>
          /\ "value" \in DOMAIN ret'
          /\ ret'.value.success = FALSE
          /\ ret'.value.error = IF MissingModelId(call.kwargs)
                                THEN "model_id is required"
                                ELSE "gas_amount must be greater than 0"
          /\ tools' = tools
          /\ chain' = chain
       ]_vars

\* an order of 0.0 GAS for gpt-4 refused by a tool that could have placed it
C21_Witness ==
    /\ Returned("BuyComputeTool.run")
    /\ call.kwargs = [model_id |-> TraderModelId, gas_amount |-> 0]
    /\ tools = TraderTools(TRUE, GoodHash, PrivateKey)
    /\ chain = <<>>
    /\ ret.value = [error |-> "gas_amount must be greater than 0", success |-> FALSE]

\* the positions in the log of the price reads for a model
PriceReads(log, model_id) ==
    {i \in 1..Len(log) : log[i].method = "test_invoke" /\ log[i].model_id = model_id}

\* the read returned a price below the threshold
ReadBelowThreshold(read) ==
    /\ read.answer # RpcError
    /\ Len(read.answer.stack) > 0
    /\ read.answer.stack[1] < PRICE_THRESHOLD

\* C22: the trader executes a buy order (a GAS transfer) for a model only
\* after a price read for that model returned a value below 1,000,000, and
\* the order is for 2.0 GAS, 200,000,000 smallest units; there is no buy
\* when the latest price read was at or above 1,000,000 or failed.
C22_BuyOnlyBelowThreshold ==
    [][(Len(chain') = Len(chain) + 1 /\ chain'[Len(chain')].method = "invoke") =>
          LET order == chain'[Len(chain')]
              reads == PriceReads(chain, order.model_id)
          IN  /\ order.amount = 200000000
              /\ reads # {}
              /\ \E latest \in reads :
                    /\ \A i \in reads : i <= latest
                    /\ ReadBelowThreshold(chain[latest])
       ]_vars

\* the outcome of the price read that a run of the price tool made
ReadMade(before, after) == after[Len(after)]

\* C25: PriceCheckTool.run never raises.  A missing or empty model_id gives
\* an error result without any chain read; every failure of get_price (SDK
\* missing, invalid contract hash, empty result stack, RPC error) gives a
\* result with success False and an error string; only a successful read
\* gives success True, with the model_id and the price read.
C25_PriceCheckNeverRaises ==
    [][Returning("PriceCheckTool.run") =>
          /\ "value" \in DOMAIN ret'
          /\ "raised" \notin DOMAIN ret'
          /\ MissingModelId(call.kwargs) =>
                /\ "error" \in DOMAIN ret'.value
                /\ "price" \notin DOMAIN ret'.value
                /\ chain' = chain
                /\ tools' = tools
          /\ ~MissingModelId(call.kwargs) =>
                /\ "success" \in DOMAIN ret'.value
                /\ ret'.value.success <=>
                      /\ Len(chain') = Len(chain) + 1
                      /\ ReadMade(chain, chain').method = "test_invoke"
                      /\ ReadMade(chain, chain').answer # RpcError
                      /\ Len(ReadMade(chain, chain').answer.stack) > 0
                /\ ret'.value.success =>
                      /\ ret'.value.model_id = call.kwargs.model_id
                      /\ ret'.value.price = ReadMade(chain, chain').answer.stack[1]
                      /\ "error" \notin DOMAIN ret'.value
                /\ ~ret'.value.success =>
                      /\ "error" \in DOMAIN ret'.value
                      /\ "price" \notin DOMAIN ret'.value
       ]_vars

\* the node refused the request of a price read for gpt-4
C25_Witness ==
    /\ Returned("PriceCheckTool.run")
    /\ call.kwargs = [model_id |-> TraderModelId]
    /\ Len(chain) = 1
    /\ chain[1].method = "test_invoke"
    /\ chain[1].answer = RpcError
    /\ ret.value.success = FALSE
    /\ "error" \in DOMAIN ret.value

------------------------------------------------------------------------------
(* The bridge *)

\* C26: a NeoBridgeTool is not connected and has no address when
\* constructed, and after any sequence of connect, disconnect and
\* load_wallet calls every connect and every load_wallet has returned
\* False, is_connected() is still False and get_address() is still None.
C26_BridgeNeverConnects ==
    /\ ~is_connected(bridge)
    /\ get_address(bridge) = None
    /\ bridge = NeoBridgeTool
    /\ Returned("NeoBridgeTool.connect") => ret.value = FALSE
    /\ Returned("NeoBridgeTool.load_wallet") => ret.value = FALSE
    /\ Returned("NeoBridgeTool.is_connected") => ret.value = FALSE
    /\ Returned("NeoBridgeTool.get_address") => ret.value = None

\* connect has returned
C26_Witness ==
    /\ Returned("NeoBridgeTool.connect")
    /\ ret.value = FALSE
    /\ ~is_connected(bridge)
    /\ get_address(bridge) = None

------------------------------------------------------------------------------
(* The agent's hooks *)

Exited == lifecycle.pc \in {"returned", "raised"}

\* the outcomes of the awaits of a hook, in order
OutcomesOf(hook) ==
    LET log == lifecycle.hooks
        HookAt(i) == log[i].hook
    IN  [i \in {j \in 1..Len(log) : HookAt(j) = hook} |-> log[i].outcome]

Awaited(hook) == DOMAIN OutcomesOf(hook)

\* C30 as stated: run_agent calls agent.on_stop exactly once on every exit
\* path and never before on_start was attempted; when on_start raises, the
\* exception still propagates to the caller after on_stop.
C30_StopOnEveryExit ==
    /\ \A i \in Awaited("on_stop") : \E j \in Awaited("on_start") : j < i
    /\ Exited =>
          /\ Cardinality(Awaited("on_stop")) = 1
          /\ \A j \in Awaited("on_start") :
                OutcomesOf("on_start")[j] # "returns" =>
                    /\ lifecycle.pc = "raised"
                    /\ lifecycle.exception = OutcomesOf("on_start")[j]

\* C30, amended: once the banner is printed, run_agent awaits on_start once
\* and then on_stop exactly once, whether on_start returned or raised, and
\* never on_stop before on_start; if the banner raises, neither hook is
\* awaited.  After on_stop returned, an exception of on_start other than
\* KeyboardInterrupt goes on to the caller, while after a KeyboardInterrupt
\* run_agent returns normally; an exception of on_stop goes to the caller in
\* place of any other.
C30_StopOnceAfterStartAttempted ==
    /\ \A i \in Awaited("on_stop") : \E j \in Awaited("on_start") : j < i
    /\ Cardinality(Awaited("on_start")) <= 1
    /\ Cardinality(Awaited("on_stop")) <= 1
    /\ Exited =>
          IF lifecycle.printed = <<>>
          THEN /\ lifecycle.hooks = <<>>
               /\ lifecycle.pc = "raised"
               /\ lifecycle.exception \in {"AttributeError", "KeyError"}
          ELSE /\ Len(lifecycle.hooks) = 2
               /\ lifecycle.hooks[1].hook = "on_start"
               /\ lifecycle.hooks[2].hook = "on_stop"
               /\ LET started == lifecycle.hooks[1].outcome
                      stopped == lifecycle.hooks[2].outcome
                  IN  IF stopped # "returns"
                      THEN lifecycle.pc = "raised" /\ lifecycle.exception = stopped
                      ELSE IF started \in {"returns", "KeyboardInterrupt"}
                      THEN lifecycle.pc = "returned"
                      ELSE lifecycle.pc = "raised" /\ lifecycle.exception = started

\* on_start raised, on_stop ran and returned, the caller gets the exception
C30_Witness ==
    /\ lifecycle.pc = "raised"
    /\ lifecycle.exception = "RuntimeError"
    /\ lifecycle.hooks = <<[hook |-> "on_start", outcome |-> "RuntimeError"],
                           [hook |-> "on_stop", outcome |-> "returns"]>>

====
